---- MODULE Spec2Model ----
(***************************************************************************)
(* Coordination core of agent-co: the channel store, the wake-up trigger   *)
(* engine, the task store and the task watchdog, as one state machine.     *)
(*                                                                         *)
(* Time is the value of Date.now() in milliseconds.  The clock never runs  *)
(* backwards and advances in steps of TickMs (half a cooldown window), so  *)
(* that the boundaries of the code's comparisons (exactly 5 000 ms,        *)
(* exactly 10 000 ms) are hit.                                             *)
(***************************************************************************)
EXTENDS Integers, Sequences, FiniteSets, TLC

\* ------------------------------------------------------------------ bounds
MaxTicks == 5
MaxMessages == 3
MaxLogs == 4

\* --------------------------------------------------------- program constants
TRIGGER_COOLDOWN_MS == 5000
DEFAULT_MESSAGE_LIMIT == 50
DEFAULT_LOG_LIMIT == 100
TRANSCRIPT_LIMIT == 15

TickMs == TRIGGER_COOLDOWN_MS \div 2
MaxClock == 1 + MaxTicks * TickMs

\* ------------------------------------------------------------------ domains
MemberIds == {"main", "builder", "investor"}
ChannelIds == {"ch_1", "ch_2"}
ChannelNames == {"investor-relations", "eng"}
\* threadId as postMessage receives it: NoThread is `undefined`.
NoThread == "<undefined>"
ThreadInputs == {NoThread, "", "th_1"}
\* thread_id as stored: NULL or a string.
NULL == "<null>"
NoChannel == "<no row>"
\* opts.before as getMessages receives it: NoBefore is `undefined`.
NoBefore == -1
\* What a caller passes as channel reference: an id, a name, or neither.
ChannelRefs == ChannelIds \cup ChannelNames \cup {"nowhere"}
\* listAgentIds(loadConfig()) at the moments the config is read.
AgentConfigs == {{"main", "builder"}, {"main"}}
\* The listener setupChannelTriggers registers; its handler catches the
\* failures of the gateway calls it starts.
TriggerListener ==
  [name |-> "trigger", throws |-> FALSE, broadcasts |-> TRUE, reposts |-> FALSE]
\* The listener of the second copy of the trigger module, whose handler
\* starts with `if (event.type !== "channel.message") return;` and never
\* calls the broadcaster.
TriggerListenerSilent ==
  [name |-> "trigger", throws |-> FALSE, broadcasts |-> FALSE, reposts |-> FALSE]
\* Other subscribers of the store's "event" stream.
ListenerNames == {"dashboard", "audit"}
TaskIds == {"task_1", "task_2"}
UnknownTaskId == "task_x"
NoStatus == "<undefined>"
\* parentTaskId as createTask receives it: NoParent is `undefined`.
NoParent == "<undefined>"
StaleThresholds == {TickMs, 2 * TickMs}

VARIABLES
  clock,            \* Date.now()
  channels,         \* channels table: id -> name, or NoChannel
  members,          \* channel_members table: id -> (member id -> role)
  messages,         \* channel_messages table, in insertion (rowid) order
  knownAgentIds,    \* listAgentIds(loadConfig())
  recentTriggers,   \* trigger.ts: Map "<agentId>:<channelId>" -> last fire
  listeners,        \* store.on("event", ...): the channel store's listeners, in
                    \* registration order, each with whether its handler throws
  calls,            \* every callGateway({method: "agent"}) issued, in order
  tasks,            \* tasks table: id -> row (domain = existing ids)
  taskDeps,         \* task_dependencies table: set of <<task, dependsOn>>
  taskLogs,         \* task_logs table, in insertion order
  staleThresholdMs, \* startTaskWatchdog opts.staleThresholdMs; 0 while no watchdog runs
  timers,           \* the watchdog's setInterval and setTimeout handles, and whether stop() returned
  alerted,          \* startTaskWatchdog: const alerted = new Set<string>()
  interval,         \* per task: the task.stale events, error logs and broadcasts
                    \* of the watchdog in the task's current stale interval
  afterAlert,       \* per task: "none", "alerted" (task.stale was emitted and no
                    \* heartbeat came since) or "heartbeat" (one came since)
  lastOp            \* the store operation or RPC that ran last, with its outcome

chanVars == <<channels, members, messages, knownAgentIds, recentTriggers, listeners, calls>>
taskVars == <<tasks, taskDeps, taskLogs, staleThresholdMs, timers, alerted, interval,
              afterAlert>>
vars == <<clock, channels, members, messages, knownAgentIds, recentTriggers,
          listeners, calls, tasks, taskDeps, taskLogs, staleThresholdMs, timers,
          alerted, interval, afterAlert, lastOp>>

\* ------------------------------------------------------------------ helpers
RECURSIVE SetToSeq(_)
SetToSeq(S) ==
  IF S = {} THEN <<>>
  ELSE LET x == CHOOSE y \in S : TRUE IN <<x>> \o SetToSeq(S \ {x})

Reverse(s) == [i \in 1..Len(s) |-> s[Len(s) + 1 - i]]

Range(s) == {s[i] : i \in DOMAIN s}

Min(a, b) == IF a < b THEN a ELSE b

\* ============================================================ channel store

\* CompanyChannelStore.getMembers: the member ids of the channel's rows.
getMembers(channelId) == DOMAIN members[channelId]

\* postMessage stores `opts.threadId ?? null`.
StoredThread(threadInput) == IF threadInput = NoThread THEN NULL ELSE threadInput

\* The row postMessage inserts.  `id` stands for msg_<time><random>: unique,
\* here the commit index, so that commit order can be read from it.
NextIdIn(msgs, cs) ==
  LET used == {msgs[i].id : i \in DOMAIN msgs} \cup {cs[i].msg : i \in DOMAIN cs}
  IN IF used = {} THEN 1 ELSE 1 + CHOOSE n \in used : \A m \in used : m <= n

NextMessageId == NextIdIn(messages, calls)

NewMessage(channelId, senderId, threadInput) ==
  [id |-> NextMessageId, channelId |-> channelId, senderId |-> senderId,
   timestamp |-> clock, threadId |-> StoredThread(threadInput)]

\* The WHERE clause of the four getMessages queries.  `opts?.threadId` and
\* `opts?.before` are tested for truthiness: "" and NoThread take the root
\* branch, before = 0 and NoBefore mean no bound.
ScopeRows(msgs, channelId, threadInput, before) ==
  {i \in DOMAIN msgs :
     /\ msgs[i].channelId = channelId
     /\ IF threadInput \notin {NoThread, ""}
        THEN msgs[i].threadId = threadInput
        ELSE msgs[i].threadId = NULL
     /\ before \notin {NoBefore, 0} => msgs[i].timestamp < before}

\* ORDER BY timestamp DESC LIMIT ?: the first `limit` rows of some ordering
\* of the selected rows by descending timestamp.  SQL leaves the order of
\* rows with equal timestamps open, so every such ordering is a possible
\* answer.  The result is the set of row-index sequences the query may give.
RECURSIVE OrderDescLimit(_, _, _)
OrderDescLimit(msgs, rows, limit) ==
  IF limit <= 0 \/ rows = {} THEN {<<>>}
  ELSE LET newest == {r \in rows : \A x \in rows : msgs[x].timestamp <= msgs[r].timestamp}
       IN UNION {{<<r>> \o q : q \in OrderDescLimit(msgs, rows \ {r}, limit - 1)} :
                 r \in newest}

\* CompanyChannelStore.getMessages: the possible results, each mapped row
\* list reversed (`toReversed()`).
getMessages(msgs, channelId, threadInput, before, limit) ==
  {Reverse([i \in DOMAIN q |-> msgs[q[i]]]) :
     q \in OrderDescLimit(msgs, ScopeRows(msgs, channelId, threadInput, before), limit)}

\* EventEmitter.emit("event", e): the listeners are called one after the
\* other in registration order on the caller's stack; a listener that throws
\* ends emit with its exception, and the listeners after it are not called.
\* `delivered` lists the listeners whose handler was entered.
RECURSIVE emit(_)
emit(ls) ==
  IF ls = <<>> THEN [delivered |-> <<>>, threw |-> FALSE]
  ELSE IF Head(ls).throws THEN [delivered |-> <<Head(ls).name>>, threw |-> TRUE]
  ELSE LET rest == emit(Tail(ls))
       IN [delivered |-> <<Head(ls).name>> \o rest.delivered, threw |-> rest.threw]

\* The switch at the head of the trigger listener: the name under which an
\* event type is handed to the WebSocket broadcaster.
BroadcastName(type) ==
  CASE type = "channel.message" -> "company.channel.message"
    [] type = "channel.created" -> "company.channel.created"
    [] type = "channel.member.joined" -> "company.channel.member.joined"
    [] type = "channel.member.left" -> "company.channel.member.left"
    [] type = "channel.deleted" -> "company.channel.deleted"

\* The broadcasts of one emitted event: one by each listener entered that
\* re-broadcasts.
broadcast(ls, delivered, type) ==
  LET entered == SelectSeq(ls, LAMBDA l : l.name \in Range(delivered) /\ l.broadcasts)
  IN [i \in DOMAIN entered |-> BroadcastName(type)]

\* =========================================================== trigger engine

\* The cooldown key `${agentId}:${channelId}`; agent ids and channel ids hold
\* no colon, so the string determines the pair.
TriggerKey(agentId, channelId) == <<agentId, channelId>>

\* `agent:${member.memberId}:webchat:channel:${channelId}`
SessionKey(agentId, channelId, senderId) ==
  <<"agent", agentId, "webchat", "channel", channelId>>

\* recentTriggers.get(key): undefined reads as 0 in `last && ...`.
LastTrigger(rt, key) == IF key \in DOMAIN rt THEN rt[key] ELSE 0

shouldTriggerStampsSkips(rt, agentId, channelId, now) ==
  LET key == TriggerKey(agentId, channelId)
      last == LastTrigger(rt, key)
  IN [ok |-> ~(last # 0 /\ now - last < TRIGGER_COOLDOWN_MS),
      rt |-> (key :> now) @@ rt]

\* shouldTrigger: the gate's answer and the map it leaves.
shouldTrigger(rt, agentId, channelId, now) ==
  LET key == TriggerKey(agentId, channelId)
      last == LastTrigger(rt, key)
  IN IF last # 0 /\ now - last < TRIGGER_COOLDOWN_MS
     THEN [ok |-> FALSE, rt |-> rt]
     ELSE [ok |-> TRUE, rt |-> (key :> now) @@ rt]

pruneHalfWindow(rt, now) ==
  LET keep == {k \in DOMAIN rt : ~(now - rt[k] >= TRIGGER_COOLDOWN_MS \div 2)}
  IN [k \in keep |-> rt[k]]

pruneEverything(rt, now) ==
  LET keep == {k \in DOMAIN rt : ~(now - rt[k] >= 0)}
  IN [k \in keep |-> rt[k]]

\* pruneOldTriggers: entries older than twice the window are deleted.
pruneOldTriggers(rt, now) ==
  LET keep == {k \in DOMAIN rt : ~(now - rt[k] > TRIGGER_COOLDOWN_MS * 2)}
  IN [k \in keep |-> rt[k]]

agentMembersWithSender(channelId, senderId, known) ==
  {m \in getMembers(channelId) : m \in known}

\* members.filter(not the sender).filter(known agent id)
agentMembers(channelId, senderId, known) ==
  {m \in getMembers(channelId) : m # senderId /\ m \in known}

triggerAgentUncaught(gatewayThrows) == gatewayThrows

\* triggerAgent is an async function whose callGateway sits in try/catch and
\* whose promise has a .catch: TRUE iff an error of the gateway call reaches
\* the listener (and so postMessage) synchronously.
triggerAgentThrows(gatewayThrows) == FALSE

\* The dispatch loop `for (const member of agentMembers)` over the members in
\* row order `todo`: the cooldown map and the calls it leaves.
RECURSIVE DispatchLoopAwaiting(_, _, _, _, _, _)
DispatchLoopAwaiting(todo, rt, issued, msg, now, gatewayThrows) ==
  IF todo = <<>> THEN [rt |-> rt, calls |-> issued]
  ELSE LET member == Head(todo)
           gate == shouldTrigger(rt, member, msg.channelId, now)
           call == [agentId |-> member, channelId |-> msg.channelId,
                    sessionKey |-> SessionKey(member, msg.channelId, msg.senderId),
                    msg |-> msg.id, at |-> now,
                    state |-> IF gatewayThrows THEN "failed" ELSE "pending"]
       IN IF gate.ok
          THEN [rt |-> gate.rt, calls |-> Append(issued, call)]
          ELSE DispatchLoopAwaiting(Tail(todo), gate.rt, issued, msg, now, gatewayThrows)

RECURSIVE DispatchLoop(_, _, _, _, _, _)
DispatchLoop(todo, rt, issued, msg, now, gatewayThrows) ==
  IF todo = <<>> THEN [rt |-> rt, calls |-> issued]
  ELSE LET member == Head(todo)
           gate == shouldTrigger(rt, member, msg.channelId, now)
           call == [agentId |-> member, channelId |-> msg.channelId,
                    sessionKey |-> SessionKey(member, msg.channelId, msg.senderId),
                    msg |-> msg.id, at |-> now,
                    state |-> IF gatewayThrows THEN "failed" ELSE "pending"]
       IN IF gate.ok
          THEN DispatchLoop(Tail(todo), gate.rt, Append(issued, call), msg, now, gatewayThrows)
          ELSE DispatchLoop(Tail(todo), gate.rt, issued, msg, now, gatewayThrows)

\* =============================================================== task store
\* In the integer columns last_heartbeat_at and completed_at 0 stands for NULL
\* (Date.now() is never 0).

\* The row createTask inserts: parent_task_id `opts.parentTaskId ?? null`
\* (the column has no REFERENCES clause), status 'active', last_heartbeat_at,
\* created_at and updated_at all `now`, completed_at NULL.
NewTask(agentId, parentInput, deps) ==
  [agentId |-> agentId,
   parentTaskId |-> IF parentInput = NoParent THEN NULL ELSE parentInput,
   status |-> "active", priority |-> "medium",
   dependencies |-> deps, lastHeartbeatAt |-> clock, createdAt |-> clock,
   updatedAt |-> clock, completedAt |-> 0]

\* The task_logs row appendLog inserts.
NewLog(taskId, agentId, type) ==
  [taskId |-> taskId, agentId |-> agentId, type |-> type, timestamp |-> clock]

\* The dependency loop of createTask: the index of the first depId that names
\* no row of tasks (the foreign key on depends_on_task_id makes that INSERT
\* throw; OR IGNORE covers only the primary key), or 0 when all go through.
FirstDanglingDep(deps, existing) ==
  LET bad == {i \in DOMAIN deps : deps[i] \notin existing}
  IN IF bad = {} THEN 0 ELSE CHOOSE i \in bad : \A j \in bad : i <= j

UpdatedRowStampsCreation(row, status) ==
  [row EXCEPT !.updatedAt = row.createdAt,
              !.status = IF status = NoStatus THEN @ ELSE status,
              !.completedAt = IF status \in {"done", "failed"} THEN clock ELSE @]

\* updateTask's SET list applied to a row: updated_at always, status when
\* given, completed_at only when the new status is done or failed.
UpdatedRow(row, status) ==
  [row EXCEPT !.updatedAt = clock,
              !.status = IF status = NoStatus THEN @ ELSE status,
              !.completedAt = IF status \in {"done", "failed"} THEN clock ELSE @]

getStaleTasksAnyStatus(rows, thresholdMs, now) ==
  LET cutoff == now - thresholdMs
  IN {t \in DOMAIN rows :
        /\ (rows[t].lastHeartbeatAt = 0 \/ rows[t].lastHeartbeatAt < cutoff)
        /\ rows[t].createdAt < cutoff}

\* getStaleTasks(thresholdMs): the WHERE clause.
getStaleTasks(rows, thresholdMs, now) ==
  LET cutoff == now - thresholdMs
  IN {t \in DOMAIN rows :
        /\ rows[t].status \in {"active", "blocked"}
        /\ (rows[t].lastHeartbeatAt = 0 \/ rows[t].lastHeartbeatAt < cutoff)
        /\ rows[t].createdAt < cutoff}

\* ORDER BY updated_at ASC (rows of equal updated_at in some order).
RECURSIVE ByUpdatedAt(_, _)
ByUpdatedAt(rows, S) ==
  IF S = {} THEN <<>>
  ELSE LET t == CHOOSE x \in S : \A y \in S : rows[x].updatedAt <= rows[y].updatedAt
       IN <<t>> \o ByUpdatedAt(rows, S \ {t})

\* --------------------------------------------- bookkeeping of stale intervals
NoAlerts == [events |-> 0, errorLogs |-> 0, broadcasts |-> 0]

\* A task that is not stale after an operation has left its stale interval.
IntervalAfter(rows) ==
  [t \in TaskIds |->
     IF staleThresholdMs > 0 /\ t \in getStaleTasks(rows, staleThresholdMs, clock)
     THEN interval[t] ELSE NoAlerts]

\* TaskStore.createTask({agentId, parentTaskId, dependencies}).  `id` is
\* genTaskId(): an id no task has.  No transaction is opened: each statement
\* commits on its own.
CreateTaskWithParent(id, agentId, parentInput, deps) ==
  /\ id \notin DOMAIN tasks
  /\ Len(taskLogs) < MaxLogs
  /\ LET tasks1 == (id :> NewTask(agentId, parentInput, deps)) @@ tasks
         bad == FirstDanglingDep(deps, DOMAIN tasks1)
         done == IF bad = 0 THEN Len(deps) ELSE bad - 1
     IN /\ tasks' = tasks1
        /\ taskDeps' = taskDeps \cup {<<id, deps[i]>> : i \in 1..done}
        /\ IF bad = 0
           THEN /\ taskLogs' = Append(taskLogs, NewLog(id, agentId, "created"))
                /\ lastOp' = [op |-> "createTask", ok |-> TRUE, id |-> id, deps |-> deps,
                              parent |-> parentInput,
                              events |-> <<"task.log", "task.created">>]
           ELSE /\ taskLogs' = taskLogs
                /\ lastOp' = [op |-> "createTask", ok |-> FALSE, id |-> id, deps |-> deps,
                              parent |-> parentInput, events |-> <<>>]
        /\ interval' = IntervalAfter(tasks1)
  /\ UNCHANGED <<clock, chanVars, staleThresholdMs, timers, alerted, afterAlert>>

\* createTask without parentTaskId.
CreateTask(id, agentId, deps) == CreateTaskWithParent(id, agentId, NoParent, deps)

\* addDependency: INSERT OR IGNORE INTO task_dependencies inside try/catch.
\* An edge that exists already is ignored and the call returns true; an
\* endpoint that names no task fails the foreign key and the call returns
\* false.  The dependencies column of the tasks row is not written.
AddDependency(taskId, dependsOnTaskId) ==
  /\ IF {taskId, dependsOnTaskId} \subseteq DOMAIN tasks
     THEN /\ taskDeps' = taskDeps \cup {<<taskId, dependsOnTaskId>>}
          /\ lastOp' = [op |-> "addDependency", ok |-> TRUE, id |-> taskId,
                        dependsOn |-> dependsOnTaskId, result |-> TRUE, events |-> <<>>]
     ELSE /\ taskDeps' = taskDeps
          /\ lastOp' = [op |-> "addDependency", ok |-> TRUE, id |-> taskId,
                        dependsOn |-> dependsOnTaskId, result |-> FALSE, events |-> <<>>]
  /\ UNCHANGED <<clock, chanVars, tasks, taskLogs, staleThresholdMs, timers, alerted, interval,
                 afterAlert>>

\* removeDependency: DELETE FROM task_dependencies WHERE task_id = ? AND
\* depends_on_task_id = ?; returns whether a row went.  The dependencies
\* column of the tasks row is not written.
RemoveDependency(taskId, dependsOnTaskId) ==
  /\ taskDeps' = taskDeps \ {<<taskId, dependsOnTaskId>>}
  /\ lastOp' = [op |-> "removeDependency", ok |-> TRUE, id |-> taskId,
                dependsOn |-> dependsOnTaskId,
                result |-> (<<taskId, dependsOnTaskId>> \in taskDeps), events |-> <<>>]
  /\ UNCHANGED <<clock, chanVars, tasks, taskLogs, staleThresholdMs, timers, alerted, interval,
                 afterAlert>>

\* getTask(id).dependencies: the JSON list of the dependencies column
\* (mapTaskRow), as a set of ids.
TaskDependencies(id) == Range(tasks[id].dependencies)

\* getDependencies(id): the depends_on_task_id of the task_dependencies
\* rows of the task.
getDependencies(id) == {e[2] : e \in {d \in taskDeps : d[1] = id}}

\* What the caller `opName` answers for an outcome of the store call.  The
\* store's own operations return or throw; the tasks.* RPC handlers answer a
\* null result with INVALID_REQUEST and an exception with UNAVAILABLE.
TaskRpcs == {"tasks.get", "tasks.update", "tasks.logs", "tasks.log", "tasks.heartbeat"}

AnswerCode(opName, outcome) ==
  IF opName \notin TaskRpcs THEN outcome
  ELSE IF outcome = "null" THEN "INVALID_REQUEST"
  ELSE IF outcome = "throws" THEN "UNAVAILABLE"
  ELSE ""

\* The events updateTask emits: task.updated, then task.completed or
\* task.failed when updates.status is done or failed.
UpdateEvents(status) ==
  <<"task.updated">> \o
    (IF status = "done" THEN <<"task.completed">>
     ELSE IF status = "failed" THEN <<"task.failed">> ELSE <<>>)

\* updateTask(id, {status}) as called by `opName`.
UpdateTaskAs(opName, id, status) ==
  /\ IF id \notin DOMAIN tasks
     THEN /\ lastOp' = [op |-> opName, ok |-> FALSE, id |-> id, status |-> status,
                        events |-> <<>>, code |-> AnswerCode(opName, "null")]
          /\ UNCHANGED <<tasks, interval>>
     ELSE /\ tasks' = [tasks EXCEPT ![id] = UpdatedRow(@, status)]
          /\ interval' = IntervalAfter(tasks')
          /\ lastOp' = [op |-> opName, ok |-> TRUE, id |-> id, status |-> status,
                        events |-> UpdateEvents(status), code |-> AnswerCode(opName, "")]
  /\ UNCHANGED <<clock, chanVars, taskDeps, taskLogs, staleThresholdMs, timers, alerted, afterAlert>>

\* TaskStore.updateTask(id, {status})
UpdateTask(id, status) == UpdateTaskAs("updateTask", id, status)

\* The RPC handler tasks.update; a status of "" or none leaves the status.
TasksUpdate(id, status) == UpdateTaskAs("tasks.update", id, status)

HeartbeatRowReactivates(row) ==
  [row EXCEPT !.lastHeartbeatAt = clock, !.updatedAt = clock, !.status = "active"]

\* UPDATE tasks SET last_heartbeat_at = ?, updated_at = ? applied to a row.
HeartbeatRow(row) == [row EXCEPT !.lastHeartbeatAt = clock, !.updatedAt = clock]

\* heartbeat(taskId, agentId, message?) as called by `opName`.  The UPDATE
\* touches no row when the task does not exist; the log row of a message is
\* refused by the foreign key on task_logs.task_id then.
HeartbeatAs(opName, id, agentId, withMessage) ==
  /\ withMessage => Len(taskLogs) < MaxLogs
  /\ tasks' = [t \in DOMAIN tasks |->
                 IF t = id THEN HeartbeatRow(tasks[t]) ELSE tasks[t]]
  /\ interval' = IntervalAfter(tasks')
  /\ afterAlert' = [t \in TaskIds |->
                      IF t = id /\ t \in DOMAIN tasks /\ afterAlert[t] = "alerted"
                      THEN "heartbeat" ELSE afterAlert[t]]
  /\ IF withMessage /\ id \notin DOMAIN tasks
     THEN /\ taskLogs' = taskLogs
          /\ lastOp' = [op |-> opName, ok |-> FALSE, id |-> id, at |-> clock,
                        agentId |-> agentId, message |-> withMessage,
                        events |-> <<>>, code |-> AnswerCode(opName, "throws")]
     ELSE /\ taskLogs' = IF withMessage
                         THEN Append(taskLogs, NewLog(id, agentId, "heartbeat"))
                         ELSE taskLogs
          /\ lastOp' = [op |-> opName, ok |-> TRUE, id |-> id, at |-> clock,
                        agentId |-> agentId, message |-> withMessage,
                        events |-> (IF withMessage THEN <<"task.log">> ELSE <<>>)
                                     \o <<"task.heartbeat">>,
                        code |-> AnswerCode(opName, "")]
  /\ UNCHANGED <<clock, chanVars, taskDeps, staleThresholdMs, timers, alerted>>

\* TaskStore.heartbeat(taskId, agentId, message?)
Heartbeat(id, agentId, withMessage) == HeartbeatAs("heartbeat", id, agentId, withMessage)

\* The RPC handler tasks.heartbeat
TasksHeartbeat(id, agentId, withMessage) ==
  HeartbeatAs("tasks.heartbeat", id, agentId, withMessage)

\* The RPC handler tasks.log: appendLog(type ?? "progress"); the foreign key
\* refuses the row of a task that does not exist.
TasksLog(id, agentId) ==
  /\ Len(taskLogs) < MaxLogs
  /\ IF id \notin DOMAIN tasks
     THEN /\ lastOp' = [op |-> "tasks.log", ok |-> FALSE, id |-> id, events |-> <<>>,
                        code |-> AnswerCode("tasks.log", "throws")]
          /\ UNCHANGED taskLogs
     ELSE /\ taskLogs' = Append(taskLogs, NewLog(id, agentId, "progress"))
          /\ lastOp' = [op |-> "tasks.log", ok |-> TRUE, id |-> id,
                        events |-> <<"task.log">>, code |-> AnswerCode("tasks.log", "")]
  /\ UNCHANGED <<clock, chanVars, tasks, taskDeps, staleThresholdMs, timers, alerted, interval, afterAlert>>

\* The RPC handler tasks.get: getTask, and for a task its logs and subtasks.
TasksGet(id) ==
  /\ lastOp' = IF id \notin DOMAIN tasks
               THEN [op |-> "tasks.get", ok |-> FALSE, id |-> id, events |-> <<>>,
                     code |-> AnswerCode("tasks.get", "null")]
               ELSE [op |-> "tasks.get", ok |-> TRUE, id |-> id, events |-> <<>>,
                     code |-> AnswerCode("tasks.get", "")]
  /\ UNCHANGED <<clock, chanVars, taskVars>>

\* getLogs(taskId, {limit, before}): WHERE task_id = ? [AND timestamp < ?]
\* ORDER BY timestamp DESC LIMIT ?, the rows then reversed.  The query walks
\* idx_task_logs_task(task_id, timestamp) backwards, which yields rows of
\* equal timestamp newest row first.  `opts?.before` is tested for
\* truthiness: 0 means no bound.
RECURSIVE NewestFirstTiesOldest(_, _, _)
NewestFirstTiesOldest(logs, rows, k) ==
  IF rows = {} \/ k = 0 THEN <<>>
  ELSE LET r == CHOOSE x \in rows : \A y \in rows :
                  \/ logs[y].timestamp < logs[x].timestamp
                  \/ (logs[y].timestamp = logs[x].timestamp /\ y >= x)
       IN <<logs[r]>> \o NewestFirstTiesOldest(logs, rows \ {r}, k - 1)

RECURSIVE NewestFirst(_, _, _)
NewestFirst(logs, rows, k) ==
  IF rows = {} \/ k = 0 THEN <<>>
  ELSE LET r == CHOOSE x \in rows : \A y \in rows :
                  \/ logs[y].timestamp < logs[x].timestamp
                  \/ (logs[y].timestamp = logs[x].timestamp /\ y <= x)
       IN <<logs[r]>> \o NewestFirst(logs, rows \ {r}, k - 1)

getLogs(logs, taskId, before, limit) ==
  LET rows == {i \in DOMAIN logs :
                 logs[i].taskId = taskId /\ (before # 0 => logs[i].timestamp < before)}
  IN Reverse(NewestFirst(logs, rows, limit))

\* The types of a list of log entries.
LogTypes(entries) == [i \in DOMAIN entries |-> entries[i].type]

\* TaskStore.getLogs(taskId, opts)
GetLogs(id, before, limit) ==
  /\ lastOp' = [op |-> "getLogs", id |-> id, before |-> before, limit |-> limit,
                result |-> getLogs(taskLogs, id, before, limit)]
  /\ UNCHANGED <<clock, chanVars, taskVars>>

\* The RPC handler tasks.logs: getLogs, answered with ok whatever the id.
TasksLogs(id) ==
  /\ lastOp' = [op |-> "tasks.logs", ok |-> TRUE, id |-> id, events |-> <<>>,
                code |-> AnswerCode("tasks.logs", ""),
                result |-> getLogs(taskLogs, id, 0, DEFAULT_LOG_LIMIT)]
  /\ UNCHANGED <<clock, chanVars, taskVars>>

\* The task_manage tool, action "complete": updateTask(taskId, {status,
\* progressSummary}) and, for a task that exists, appendLog of type failed
\* (status failed) or completed (any other status).
TaskManageComplete(id, agentId, status) ==
  /\ Len(taskLogs) < MaxLogs
  /\ IF id \notin DOMAIN tasks
     THEN /\ lastOp' = [op |-> "task_manage.complete", ok |-> FALSE, id |-> id,
                        events |-> <<>>, code |-> "Task not found"]
          /\ UNCHANGED <<tasks, taskLogs, interval>>
     ELSE /\ tasks' = [tasks EXCEPT ![id] = UpdatedRow(@, status)]
          /\ taskLogs' = Append(taskLogs, NewLog(id, agentId,
                                  IF status = "failed" THEN "failed" ELSE "completed"))
          /\ interval' = IntervalAfter(tasks')
          /\ lastOp' = [op |-> "task_manage.complete", ok |-> TRUE, id |-> id,
                        events |-> UpdateEvents(status) \o <<"task.log">>, code |-> ""]
  /\ UNCHANGED <<clock, chanVars, taskDeps, staleThresholdMs, timers, alerted, afterAlert>>

\* TaskStore.getStaleTasks(thresholdMs), called at the current time.
GetStaleTasks(thresholdMs) ==
  /\ lastOp' = [op |-> "getStaleTasks", thresholdMs |-> thresholdMs, at |-> clock,
                result |-> getStaleTasks(tasks, thresholdMs, clock)]
  /\ UNCHANGED <<clock, chanVars, taskVars>>

\* ================================================================= watchdog

\* startTaskWatchdog(store, broadcast, {staleThresholdMs}); its timers run
\* check from then on.
StartTaskWatchdog(thresholdMs) ==
  /\ staleThresholdMs = 0
  /\ staleThresholdMs' = thresholdMs
  /\ timers' = [interval |-> TRUE, initialTimeout |-> TRUE, stopped |-> FALSE]
  /\ UNCHANGED <<clock, chanVars, tasks, taskDeps, taskLogs, alerted, interval,
                 afterAlert, lastOp>>

StopLeavesInitialTimeout(ts) == [ts EXCEPT !.interval = FALSE, !.stopped = TRUE]

\* stop(): clearInterval(interval) and clearTimeout(initialTimeout).
Stopped(ts) == [interval |-> FALSE, initialTimeout |-> FALSE, stopped |-> TRUE]

\* The watchdog's stop() is called and returns.
StopTaskWatchdog ==
  /\ staleThresholdMs > 0
  /\ ~timers.stopped
  /\ timers' = Stopped(timers)
  /\ lastOp' = [op |-> "stop", initialTimeoutPending |-> timers.initialTimeout]
  /\ UNCHANGED <<clock, chanVars, tasks, taskDeps, taskLogs, staleThresholdMs, alerted,
                 interval, afterAlert>>

\* The timers that can still fire.
ArmedTimers(ts) == {t \in {"interval", "initialTimeout"} : ts[t]}

\* A timer has fired: setInterval stays armed, setTimeout fires once.
TimersAfter(ts, fired) ==
  IF fired = "initialTimeout" THEN [ts EXCEPT !.initialTimeout = FALSE] ELSE ts

\* The tasks one scan alerts: the stale ones not in the alerted set.
ToAlert(staleTasks, alertedSet) == staleTasks \ alertedSet


\* The alerted set a scan leaves: the new ids added, then every id that is
\* not in the scan's stale result deleted.
AlertedAfter(staleTasks, alertedSet, toAlert) ==
  {id \in alertedSet \cup toAlert : id \in staleTasks}

\* What may fail inside one run of check(): nothing, the INSERT of
\* store.appendLog, a subscriber of the store during emit("event",
\* task.stale), or the broadcaster.
ScanFaults == {"none", "appendLog", "emit", "broadcast"}

\* One run of check(), started by a timer that is armed, in which `fault`
\* strikes at the first task the scan alerts.  The id joins the alerted set
\* before anything is written; the
\* exception leaves the loop and the clean-up of the alerted set and is
\* logged by the catch of check().  Without a task to alert nothing fails.
CheckWith(fault) ==
  /\ staleThresholdMs > 0
  /\ \E fired \in ArmedTimers(timers) : timers' = TimersAfter(timers, fired)
  /\ LET staleTasks == getStaleTasks(tasks, staleThresholdMs, clock)
         toAlert == ToAlert(staleTasks, alerted)
         order == ByUpdatedAt(tasks, toAlert)
     IN IF fault = "none"
        THEN /\ Len(taskLogs) + Len(order) <= MaxLogs
             /\ alerted' = AlertedAfter(staleTasks, alerted, toAlert)
             /\ taskLogs' = taskLogs \o [i \in DOMAIN order |-> NewLog(order[i], "system", "error")]
             /\ interval' = [t \in TaskIds |->
                               IF t \in toAlert
                               THEN [events |-> interval[t].events + 1,
                                     errorLogs |-> interval[t].errorLogs + 1,
                                     broadcasts |-> interval[t].broadcasts + 1]
                               ELSE interval[t]]
             /\ afterAlert' = [t \in TaskIds |-> IF t \in toAlert THEN "alerted" ELSE afterAlert[t]]
             /\ lastOp' = [op |-> "check", stale |-> staleTasks, alertedNow |-> toAlert]
        ELSE /\ order # <<>>
             /\ Len(taskLogs) < MaxLogs
             /\ alerted' = alerted \cup {order[1]}
             /\ taskLogs' = IF fault = "appendLog" THEN taskLogs
                            ELSE Append(taskLogs, NewLog(order[1], "system", "error"))
             /\ interval' = [interval EXCEPT ![order[1]] =
                               [events |-> @.events + (IF fault = "appendLog" THEN 0 ELSE 1),
                                errorLogs |-> @.errorLogs + (IF fault = "appendLog" THEN 0 ELSE 1),
                                broadcasts |-> @.broadcasts]]
             /\ afterAlert' = [afterAlert EXCEPT ![order[1]] =
                                 IF fault = "appendLog" THEN @ ELSE "alerted"]
             /\ lastOp' = [op |-> "check", stale |-> staleTasks,
                           alertedNow |-> IF fault = "appendLog" THEN {} ELSE {order[1]},
                           fault |-> fault]
  /\ UNCHANGED <<clock, chanVars, tasks, taskDeps, staleThresholdMs>>

\* One run of check() in which nothing fails: a timer of the watchdog
\* fires.  How far apart the runs are is opts.checkIntervalMs, which may be
\* shorter or longer than the threshold: the clock may advance any number of
\* ticks between two runs.
Check == CheckWith("none")

\* ================================================================== actions

\* Time passes.
Tick ==
  /\ clock + TickMs <= MaxClock
  /\ clock' = clock + TickMs
  /\ UNCHANGED <<chanVars, taskVars, lastOp>>

resolveChannelAnyRow(ref) == {c \in ChannelIds : channels[c] # NoChannel}

\* resolveChannel / getChannel: SELECT * FROM channels WHERE id = ? OR name = ?
\* read with .get(), which takes the first row.  The rows the call may
\* return: none when the set is empty; when one channel has the id and
\* another has the name, SQL leaves open which row comes first.
resolveChannel(ref) ==
  {c \in ChannelIds : channels[c] # NoChannel /\ (c = ref \/ channels[c] = ref)}

\* CompanyChannelStore.resolveChannel(nameOrId) and getChannel(idOrName),
\* which run the same query (getChannel adds the member rows): the id of the
\* row returned, or NoChannel for null.
LookupChannel(opName, ref) ==
  /\ \E r \in (IF resolveChannel(ref) = {} THEN {NoChannel} ELSE resolveChannel(ref)) :
       lastOp' = [op |-> opName, ref |-> ref, result |-> r,
                  members |-> IF r = NoChannel \/ opName # "getChannel" THEN {}
                              ELSE getMembers(r)]
  /\ UNCHANGED <<clock, chanVars, taskVars>>

ResolveChannel(ref) == LookupChannel("resolveChannel", ref)

GetChannel(ref) == LookupChannel("getChannel", ref)

NameNeverTaken(name) == FALSE

\* channels.name is UNIQUE: is there a row of that name?
NameTaken(name) == \E c \in ChannelIds : channels[c] = name

\* The member rows createChannel inserts: `opts.members ?? [createdBy]`
\* without duplicates (the caller passes the list as a set), role admin for
\* the id equal to createdBy and member for the others.
NewMembers(createdBy, memberList) ==
  [m \in memberList |-> IF m = createdBy THEN "admin" ELSE "member"]

\* createChannel as called by `opName`.  A second channel of the same name
\* makes the INSERT INTO channels throw before anything else is written;
\* `code` is what the caller reports then.  Otherwise the rows are inserted
\* under a fresh id (genChannelId) and channel.created is emitted.
CreateChannelAs(opName, name, createdBy, memberList, code) ==
  IF NameTaken(name)
  THEN /\ lastOp' = [op |-> opName, ok |-> FALSE, error |-> code, id |-> NoChannel,
                     name |-> name, createdBy |-> createdBy, delivered |-> <<>>]
       /\ UNCHANGED <<channels, members>>
  ELSE \E id \in ChannelIds :
         /\ channels[id] = NoChannel
         /\ channels' = [channels EXCEPT ![id] = name]
         /\ members' = [members EXCEPT ![id] = NewMembers(createdBy, memberList)]
         /\ LET e == emit(listeners)
            IN lastOp' = [op |-> opName, ok |-> ~e.threw,
                          error |-> IF e.threw THEN "UNAVAILABLE" ELSE "",
                          id |-> id, name |-> name, createdBy |-> createdBy,
                          delivered |-> e.delivered,
                          broadcast |-> broadcast(listeners, e.delivered, "channel.created")]

\* CompanyChannelStore.createChannel
CreateChannel(name, createdBy, memberList) ==
  /\ CreateChannelAs("createChannel", name, createdBy, memberList, "UNIQUE constraint failed")
  /\ UNCHANGED <<clock, messages, knownAgentIds, recentTriggers, calls, listeners, taskVars>>

\* The RPC handler company.channels.create: an error whose message holds
\* "UNIQUE constraint" is answered with ErrorCodes.INVALID_REQUEST, any other
\* with UNAVAILABLE.
CompanyChannelsCreate(name, createdBy, memberList) ==
  /\ CreateChannelAs("company.channels.create", name, createdBy, memberList, "INVALID_REQUEST")
  /\ UNCHANGED <<clock, messages, knownAgentIds, recentTriggers, calls, listeners, taskVars>>

CascadeNothing(msgs, id) == msgs

\* channel_messages.channel_id REFERENCES channels(id) ON DELETE CASCADE, with
\* PRAGMA foreign_keys=ON: the message rows left when channel `id` is deleted.
CascadeMessages(msgs, id) == SelectSeq(msgs, LAMBDA m : m.channelId # id)

\* CompanyChannelStore.deleteChannel as called by `opName` with the string
\* `ref`: DELETE FROM channels WHERE id = ?.  The member and message rows go
\* with the channel (ON DELETE CASCADE); channel.deleted is emitted when a
\* row was deleted.  A string that is no channel id matches no row.
DeleteChannelAs(opName, ref) ==
  IF ref \notin ChannelIds \/ channels[IF ref \in ChannelIds THEN ref ELSE "ch_1"] = NoChannel
  THEN /\ lastOp' = [op |-> opName, ok |-> TRUE, id |-> ref, deleted |-> FALSE,
                     events |-> <<>>, delivered |-> <<>>]
       /\ UNCHANGED <<channels, members, messages>>
  ELSE /\ channels' = [channels EXCEPT ![ref] = NoChannel]
       /\ members' = [members EXCEPT ![ref] = <<>>]
       /\ messages' = CascadeMessages(messages, ref)
       /\ LET e == emit(listeners)
          IN lastOp' = [op |-> opName, ok |-> ~e.threw, id |-> ref,
                        deleted |-> TRUE, events |-> <<"channel.deleted">>,
                        delivered |-> e.delivered,
                        broadcast |-> broadcast(listeners, e.delivered, "channel.deleted")]

\* CompanyChannelStore.deleteChannel
DeleteChannel(id) ==
  /\ DeleteChannelAs("deleteChannel", id)
  /\ UNCHANGED <<clock, knownAgentIds, recentTriggers, calls, listeners, taskVars>>

\* The RPC handler company.channels.delete: the parameter goes to
\* deleteChannel as it came; the answer is ok with { deleted }.
CompanyChannelsDelete(ref) ==
  /\ DeleteChannelAs("company.channels.delete", ref)
  /\ UNCHANGED <<clock, knownAgentIds, recentTriggers, calls, listeners, taskVars>>

DefaultChannelAlwaysMissing == TRUE

\* ensureDefaultChannels: `SELECT 1 FROM channels WHERE name = ?` finds no
\* row for investor-relations.
DefaultChannelMissing == ~NameTaken("investor-relations")

\* closeCompanyChannelStore() and then getCompanyChannelStore(): a new
\* CompanyChannelStore on the same database file.  The new instance has no
\* listeners; its constructor runs ensureDefaultChannels, which creates
\* investor-relations (creator "system", members investor and main) when no
\* channel of that name exists.
ReopenChannelStore ==
  /\ listeners' = <<>>
  /\ IF ~DefaultChannelMissing
     THEN /\ lastOp' = [op |-> "reopen", created |-> NoChannel]
          /\ UNCHANGED <<channels, members>>
     ELSE \E id \in ChannelIds :
            /\ channels[id] = NoChannel
            /\ channels' = [channels EXCEPT ![id] = "investor-relations"]
            /\ members' = [members EXCEPT ![id] = NewMembers("system", {"investor", "main"})]
            /\ lastOp' = [op |-> "reopen", created |-> id]
  /\ UNCHANGED <<clock, messages, knownAgentIds, recentTriggers, calls, taskVars>>

\* CompanyChannelStore.listChannels: one entry per row of channels.
ListChannels ==
  /\ LET rows == SetToSeq({c \in ChannelIds : channels[c] # NoChannel})
     IN lastOp' = [op |-> "listChannels",
                   result |-> [i \in DOMAIN rows |-> [id |-> rows[i], name |-> channels[rows[i]]]]]
  /\ UNCHANGED <<clock, chanVars, taskVars>>

\* store.on("event", handler): one more subscriber.
StoreOn(name, throws) ==
  /\ \A i \in DOMAIN listeners : listeners[i].name # name
  /\ listeners' = Append(listeners, [name |-> name, throws |-> throws,
                                     broadcasts |-> FALSE, reposts |-> FALSE])
  /\ UNCHANGED <<clock, channels, members, messages, knownAgentIds, recentTriggers,
                 calls, taskVars, lastOp>>

\* setupChannelTriggers(store, broadcast) on a store that has no trigger
\* listener yet (the gateway starts on a reopened store): the listener of
\* the copy of the module that was built is registered.
SetupChannelTriggers(l) ==
  /\ \A i \in DOMAIN listeners : listeners[i].name # l.name
  /\ listeners' = Append(listeners, l)
  /\ UNCHANGED <<clock, channels, members, messages, knownAgentIds, recentTriggers,
                 calls, taskVars, lastOp>>

neverMember(channelId, memberId) == FALSE

\* CompanyChannelStore.isMember, and addMember's own SELECT 1 FROM
\* channel_members WHERE channel_id = ? AND member_id = ?
isMember(channelId, memberId) == memberId \in DOMAIN members[channelId]

\* CompanyChannelStore.addMember.  channel_members.channel_id references
\* channels(id): a row for a channel that does not exist is refused.
AddMember(channelId, memberId) ==
  /\ IF isMember(channelId, memberId)
     THEN /\ lastOp' = [op |-> "addMember", ok |-> TRUE, channelId |-> channelId,
                        memberId |-> memberId, added |-> FALSE, events |-> <<>>,
                        delivered |-> <<>>]
          /\ UNCHANGED members
     ELSE IF channels[channelId] = NoChannel
     THEN /\ lastOp' = [op |-> "addMember", ok |-> FALSE, channelId |-> channelId,
                        memberId |-> memberId, added |-> FALSE, events |-> <<>>,
                        delivered |-> <<>>]
          /\ UNCHANGED members
     ELSE /\ members' = [members EXCEPT ![channelId] = (memberId :> "member") @@ @]
          /\ LET e == emit(listeners)
             IN lastOp' = [op |-> "addMember", ok |-> ~e.threw, channelId |-> channelId,
                           memberId |-> memberId, added |-> TRUE,
                           events |-> <<"channel.member.joined">>,
                           delivered |-> e.delivered,
                           broadcast |-> broadcast(listeners, e.delivered,
                                                   "channel.member.joined")]
  /\ UNCHANGED <<clock, channels, messages, knownAgentIds, recentTriggers, calls, listeners, taskVars>>

\* CompanyChannelStore.removeMember
RemoveMember(channelId, memberId) ==
  /\ members' = [members EXCEPT ![channelId] =
       [m \in DOMAIN @ \ {memberId} |-> @[m]]]
  /\ IF memberId \in DOMAIN members[channelId]
     THEN LET e == emit(listeners)
          IN lastOp' = [op |-> "removeMember", ok |-> ~e.threw, channelId |-> channelId,
                        memberId |-> memberId, removed |-> TRUE,
                        events |-> <<"channel.member.left">>, delivered |-> e.delivered,
                        broadcast |-> broadcast(listeners, e.delivered, "channel.member.left")]
     ELSE lastOp' = [op |-> "removeMember", ok |-> TRUE, channelId |-> channelId,
                     memberId |-> memberId, removed |-> FALSE, events |-> <<>>,
                     delivered |-> <<>>]
  /\ UNCHANGED <<clock, channels, messages, knownAgentIds, recentTriggers, calls, listeners, taskVars>>

\* `store.getMessages(channelId, { limit: 15 })` of the listener: no
\* threadId and no before.
recentMessages(msgs, channelId) ==
  getMessages(msgs, channelId, NoThread, NoBefore, TRANSCRIPT_LIMIT)

\* One line `[${m.senderId}]: ${m.text}` of the transcript; the text of a
\* message is represented by the message's id.
TranscriptLine(m) == <<"[", m.senderId, "]: ", m.id>>

\* The transcript: the lines of the messages in the order given, joined by
\* newlines.
Transcript(recent) == [i \in DOMAIN recent |-> TranscriptLine(recent[i])]

\* The transcripts the listener may build for an event of the channel when
\* the table holds the rows msgs: one for every answer the query may give.
Transcripts(msgs, channelId) == {Transcript(r) : r \in recentMessages(msgs, channelId)}

\* The agents of the config change (an agent is hired or fired); the
\* listener reads the config anew on every event.
SetConfig(agentIds) ==
  /\ agentIds # knownAgentIds
  /\ knownAgentIds' = agentIds
  /\ UNCHANGED <<lastOp, clock, channels, members, messages, recentTriggers, calls, listeners, taskVars>>

\* A subscriber whose handler answers a channel.message of another sender
\* with store.postMessage to the same channel.
ReplyingListener(name) ==
  [name |-> name, throws |-> FALSE, broadcasts |-> FALSE, reposts |-> TRUE]

\* store.on("event", handler) for such a subscriber.
StoreOnReplying(name) ==
  /\ \A i \in DOMAIN listeners : listeners[i].name # name
  /\ listeners' = Append(listeners, ReplyingListener(name))
  /\ UNCHANGED <<clock, channels, members, messages, knownAgentIds, recentTriggers,
                 calls, taskVars, lastOp>>

\* emit("event", channel.message of msg) over the listeners `ls`, each
\* handler run to its end before the next is called.  st holds the message
\* rows, the cooldown map, the calls, the deliveries made so far (listener,
\* message id) and whether a handler threw.  The trigger listener runs the
\* dispatch loop.  A replying listener calls postMessage,
\* which inserts the reply and runs emit for it over all listeners, on the
\* same stack, before the handler returns and the outer emit goes on to the
\* next listener; it answers while the table has room for the reply.
RECURSIVE Deliver(_, _, _, _)
Deliver(ls, st, msg, gatewayThrows) ==
  IF ls = <<>> \/ st.threw THEN st
  ELSE LET l == Head(ls)
           st1 == [st EXCEPT !.log = Append(@, <<l.name, msg.id>>)]
           todo == SetToSeq(agentMembers(msg.channelId, msg.senderId, knownAgentIds))
           d == DispatchLoop(todo, st1.rt, <<>>, msg, clock, gatewayThrows)
           reply == [id |-> NextIdIn(st1.msgs, st1.calls), channelId |-> msg.channelId,
                     senderId |-> l.name, timestamp |-> clock, threadId |-> NULL]
           st2 == IF l.throws THEN [st1 EXCEPT !.threw = TRUE]
                  ELSE IF l.name = TriggerListener.name
                  THEN [st1 EXCEPT !.rt = d.rt, !.calls = @ \o d.calls]
                  ELSE IF l.reposts /\ msg.senderId # l.name /\ Len(st1.msgs) < MaxMessages
                  THEN Deliver(listeners, [st1 EXCEPT !.msgs = Append(@, reply)], reply,
                               gatewayThrows)
                  ELSE st1
       IN Deliver(Tail(ls), st2, msg, gatewayThrows)

\* CompanyChannelStore.postMessage on an existing channel, with the
\* channel.message listener of setupChannelTriggers that `emit` runs before
\* postMessage returns.  gatewayThrows: callGateway fails at once for the
\* calls of this event; otherwise they are pending and settle later.
\* `deliveries` lists the handler entries in the order they happened.
PostStored(channelId, senderId, threadInput, gatewayThrows, opName, ref) ==
  LET msg == NewMessage(channelId, senderId, threadInput)
      e == emit(listeners)
      todo == SetToSeq(agentMembers(channelId, senderId, knownAgentIds))
      d == IF TriggerListener.name \in Range(e.delivered)
           THEN DispatchLoop(todo, recentTriggers, <<>>, msg, clock, gatewayThrows)
           ELSE [rt |-> recentTriggers, calls |-> <<>>]
      threw == e.threw \/ \E i \in DOMAIN d.calls : triggerAgentThrows(gatewayThrows)
      st == Deliver(listeners,
                    [msgs |-> Append(messages, msg), rt |-> recentTriggers, calls |-> calls,
                     log |-> <<>>, threw |-> FALSE],
                    msg, gatewayThrows)
      got == SelectSeq(st.log, LAMBDA x : x[2] = msg.id)
      entered == [i \in DOMAIN got |-> got[i][1]]
  IN IF \A i \in DOMAIN listeners : ~listeners[i].reposts
     THEN /\ messages' = Append(messages, msg)
          /\ recentTriggers' = d.rt
          /\ calls' = calls \o d.calls
          /\ lastOp' = [op |-> opName, ok |-> ~threw, ref |-> ref, message |-> msg,
                        delivered |-> e.delivered,
                        broadcast |-> broadcast(listeners, e.delivered, "channel.message"),
                        deliveries |-> [i \in DOMAIN e.delivered |->
                                          <<e.delivered[i], msg.id>>]]
     ELSE /\ messages' = st.msgs
          /\ recentTriggers' = st.rt
          /\ calls' = st.calls
          /\ lastOp' = [op |-> opName, ok |-> ~st.threw, ref |-> ref, message |-> msg,
                        delivered |-> entered,
                        broadcast |-> broadcast(listeners, entered, "channel.message"),
                        deliveries |-> st.log]

\* CompanyChannelStore.postMessage(opts)
PostMessage(channelId, senderId, threadInput, gatewayThrows) ==
  /\ Len(messages) < MaxMessages
  /\ IF channels[channelId] = NoChannel
     THEN /\ lastOp' = [op |-> "postMessage", ok |-> FALSE, ref |-> channelId,
                        error |-> "Channel not found", delivered |-> <<>>]
          /\ UNCHANGED <<messages, recentTriggers, calls>>
     ELSE PostStored(channelId, senderId, threadInput, gatewayThrows, "postMessage", channelId)
  /\ UNCHANGED <<clock, channels, members, knownAgentIds, listeners, taskVars>>

\* The RPC handler company.channels.post: the channel is given by id or name.
CompanyChannelsPost(ref, senderId, threadInput, gatewayThrows) ==
  /\ Len(messages) < MaxMessages
  /\ IF resolveChannel(ref) = {}
     THEN /\ lastOp' = [op |-> "company.channels.post", ok |-> FALSE, ref |-> ref,
                        error |-> "INVALID_REQUEST", delivered |-> <<>>]
          /\ UNCHANGED <<messages, recentTriggers, calls>>
     ELSE \E ch \in resolveChannel(ref) :
            PostStored(ch, senderId, threadInput, gatewayThrows, "company.channels.post", ref)
  /\ UNCHANGED <<clock, channels, members, knownAgentIds, listeners, taskVars>>

\* The pruner's interval fires.
PruneOldTriggers ==
  /\ recentTriggers' = pruneOldTriggers(recentTriggers, clock)
  /\ UNCHANGED <<lastOp, clock, channels, members, messages, knownAgentIds, calls, listeners, taskVars>>

\* A pending gateway call ends: it answers, fails or times out.  triggerAgent
\* logs a failure and returns.
GatewaySettle(i, outcome) ==
  /\ calls[i].state = "pending"
  /\ calls' = [calls EXCEPT ![i].state = outcome]
  /\ UNCHANGED <<lastOp, clock, channels, members, messages, knownAgentIds, recentTriggers, listeners, taskVars>>

\* CompanyChannelStore.getMessages, called with some options.
GetMessages(channelId, threadInput, before, limit) ==
  /\ \E r \in getMessages(messages, channelId, threadInput, before, limit) :
       lastOp' = [op |-> "getMessages", channelId |-> channelId,
                  threadInput |-> threadInput, before |-> before,
                  limit |-> limit, result |-> r]
  /\ UNCHANGED <<clock, chanVars, taskVars>>

\* ==================================================================== Init

\* After construction: ensureDefaultChannels has created investor-relations
\* with members investor and main (creator "system"); no task exists; the
\* cooldown map and the alerted set are empty.
Init ==
  /\ clock = 1
  /\ channels = [c \in ChannelIds |-> IF c = "ch_1" THEN "investor-relations" ELSE NoChannel]
  /\ members = [c \in ChannelIds |->
                 IF c = "ch_1" THEN [m \in {"investor", "main"} |-> "member"] ELSE <<>>]
  /\ messages = <<>>
  /\ knownAgentIds = {"main", "builder"}
  /\ recentTriggers = <<>>
  /\ listeners = <<TriggerListener>>
  /\ calls = <<>>
  /\ tasks = <<>>
  /\ taskDeps = {}
  /\ taskLogs = <<>>
  /\ staleThresholdMs = 0
  /\ timers = [interval |-> FALSE, initialTimeout |-> FALSE, stopped |-> FALSE]
  /\ alerted = {}
  /\ interval = [t \in TaskIds |-> NoAlerts]
  /\ afterAlert = [t \in TaskIds |-> "none"]
  /\ lastOp = [op |-> "init"]

\* -------------------------------------------------------- specifications
ShortClock == 1 + 2 * TickMs

\* The cooldown gate and the pruner over two channels with fixed members.
NextCooldown ==
  \/ Tick
  \/ CreateChannel("eng", "main", {"main", "builder"})
  \/ \E c \in ChannelIds, s \in {"investor", "builder"} : PostMessage(c, s, NoThread, FALSE)
  \/ PruneOldTriggers

SpecCooldown == Init /\ [][NextCooldown]_vars

\* Recipient resolution while members join and leave and the config changes.
NextTrigger ==
  \/ clock < ShortClock /\ Tick
  \/ \E m \in {"builder", "investor"} : AddMember("ch_1", m)
  \/ \E m \in {"builder", "investor"} : RemoveMember("ch_1", m)
  \/ \E cfg \in AgentConfigs : SetConfig(cfg)
  \/ \E c \in ChannelIds, s \in MemberIds : PostMessage(c, s, NoThread, FALSE)

SpecTrigger == Init /\ [][NextTrigger]_vars

\* Posts whose wake-up calls fail at once, fail later, succeed or never end.
NextGateway ==
  \/ clock < ShortClock /\ Tick
  \/ \E r \in ChannelIds \cup ChannelNames, s \in {"investor", "builder"}, g \in BOOLEAN :
       CompanyChannelsPost(r, s, NoThread, g)
  \/ \E s \in {"investor", "builder"}, g \in BOOLEAN : PostMessage("ch_1", s, NoThread, g)
  \/ \E i \in DOMAIN calls, o \in {"ok", "failed"} : GatewaySettle(i, o)

SpecGateway == Init /\ [][NextGateway]_vars

\* Posts into root level and threads of one channel, and reads of them.
NextChannel ==
  \/ clock < ShortClock /\ Tick
  \/ \E t \in ThreadInputs : PostMessage("ch_1", "investor", t, FALSE)
  \/ \E t \in ThreadInputs : CompanyChannelsPost("investor-relations", "builder", t, FALSE)
  \/ \E t \in ThreadInputs, b \in {0, clock}, l \in {1, DEFAULT_MESSAGE_LIMIT} :
       GetMessages("ch_1", t, b, l)

SpecChannel == Init /\ [][NextChannel]_vars

\* Tasks created (with dependency lists), updated and heartbeated.
NextTask ==
  \/ clock < ShortClock /\ Tick
  \/ \E id \in TaskIds,
        deps \in {<<>>, <<UnknownTaskId>>, <<"task_1", UnknownTaskId>>,
                  <<"task_1", "task_1">>} :
       CreateTask(id, "builder", deps)
  \/ \E id \in {"task_1", UnknownTaskId}, st \in {"active", "done", "failed", NoStatus} :
       UpdateTask(id, st)
  \/ \E id \in {"task_1", UnknownTaskId} : Heartbeat(id, "builder", TRUE)

SpecTask == Init /\ [][NextTask]_vars

\* The watchdog scanning at arbitrary moments while tasks live.
NextWatchdog ==
  \/ Tick
  \/ \E th \in StaleThresholds : StartTaskWatchdog(th)
  \/ \E id \in TaskIds : CreateTask(id, "builder", <<>>)
  \/ \E st \in {"waiting", "active"} : UpdateTask("task_1", st)
  \/ Heartbeat("task_1", "builder", FALSE)
  \/ Check

SpecWatchdog == Init /\ [][NextWatchdog]_vars

\* Channels created (by the store and by the RPC), deleted, listed, and the
\* store reopened.
NextDirectory ==
  \/ \E n \in ChannelNames, c \in {"main", "system"} : CreateChannel(n, c, {"main", "builder"})
  \/ \E n \in ChannelNames : CompanyChannelsCreate(n, "main", {"main"})
  \/ \E id \in ChannelIds : DeleteChannel(id)
  \/ ReopenChannelStore
  \/ ListChannels
  \/ AddMember("ch_2", "investor")
  \/ RemoveMember("ch_1", "main")
  \/ PostMessage("ch_1", "builder", NoThread, FALSE)

SpecDirectory == Init /\ [][NextDirectory]_vars

\* Several subscribers on the channel store, some of them failing.
NextEvents ==
  \/ \E n \in ListenerNames, t \in BOOLEAN : StoreOn(n, t)
  \/ PostMessage("ch_1", "investor", NoThread, FALSE)
  \/ CreateChannel("eng", "main", {"main"})
  \/ DeleteChannel("ch_2")
  \/ AddMember("ch_1", "builder")
  \/ RemoveMember("ch_1", "builder")
  \/ clock < ShortClock /\ Tick

SpecEvents == Init /\ [][NextEvents]_vars

\* The operations whose events the subscribers act on.
NextObserve ==
  \/ clock < ShortClock /\ Tick
  \/ PostMessage("ch_1", "investor", NoThread, FALSE)
  \/ CreateChannel("eng", "main", {"main", "builder"})
  \/ DeleteChannel("ch_2")
  \/ CreateTask("task_1", "builder", <<>>)
  \/ \E id \in {"task_1", UnknownTaskId}, m \in BOOLEAN : Heartbeat(id, "builder", m)

SpecObserve == Init /\ [][NextObserve]_vars

\* One task through its life: created, heartbeated, updated, completed by
\* the store's operations and by the task_manage tool, and its log read.
NextLifecycle ==
  \/ clock < ShortClock /\ Tick
  \/ CreateTask("task_1", "builder", <<>>)
  \/ \E m \in BOOLEAN : Heartbeat("task_1", "builder", m)
  \/ \E st \in {"active", "done", "failed"} : UpdateTask("task_1", st)
  \/ \E st \in {"done", "failed"} : TaskManageComplete("task_1", "builder", st)
  \/ GetLogs("task_1", 0, DEFAULT_LOG_LIMIT)

SpecLifecycle == Init /\ [][NextLifecycle]_vars

\* Tasks of every status and age, and getStaleTasks asked at any moment.
StaleClock == 1 + 3 * TickMs

NextStale ==
  \/ clock < StaleClock /\ Tick
  \/ \E id \in TaskIds : CreateTask(id, "builder", <<>>)
  \/ \E st \in {"blocked", "waiting"} : UpdateTask("task_1", st)
  \/ UpdateTask("task_2", "done")
  \/ Heartbeat("task_1", "builder", FALSE)
  \/ \E th \in StaleThresholds : GetStaleTasks(th)

SpecStale == Init /\ [][NextStale]_vars

\* The tasks.* RPC handlers called with ids of tasks that exist or not.
NextTaskRpc ==
  \/ clock < ShortClock /\ Tick
  \/ CreateTask("task_1", "builder", <<>>)
  \/ \E id \in {"task_1", UnknownTaskId} : TasksGet(id)
  \/ \E id \in {"task_1", UnknownTaskId}, st \in {"done", NoStatus} : TasksUpdate(id, st)
  \/ \E id \in {"task_1", UnknownTaskId} : TasksLogs(id)
  \/ \E id \in {"task_1", UnknownTaskId} : TasksLog(id, "builder")
  \/ \E id \in {"task_1", UnknownTaskId}, m \in BOOLEAN : TasksHeartbeat(id, "builder", m)

SpecTaskRpc == Init /\ [][NextTaskRpc]_vars

\* Tasks created under a parent, or under an id that names no task.
NextSubtask ==
  \/ clock < ShortClock /\ Tick
  \/ \E id \in TaskIds, p \in {NoParent, "task_1", UnknownTaskId} :
       CreateTaskWithParent(id, "builder", p, <<>>)
  \/ \E id \in TaskIds, st \in {"blocked", "done"} : UpdateTask(id, st)
  \/ \E id \in TaskIds : Heartbeat(id, "builder", FALSE)

SpecSubtask == Init /\ [][NextSubtask]_vars

\* Channels looked up by id or name, among them a channel whose name is the
\* id of another channel (a name is any string the caller chooses).
NextResolve ==
  \/ clock < ShortClock /\ Tick
  \/ \E n \in {"eng", "ch_1", "ch_2"} : CreateChannel(n, "main", {"main"})
  \/ \E id \in ChannelIds : DeleteChannel(id)
  \/ \E ref \in ChannelRefs : ResolveChannel(ref)
  \/ \E ref \in ChannelRefs : GetChannel(ref)
  \/ AddMember("ch_2", "builder")

SpecResolve == Init /\ [][NextResolve]_vars

\* Members added and removed, repeatedly, on channels that exist or not.
NextMembers ==
  \/ clock < ShortClock /\ Tick
  \/ CreateChannel("eng", "main", {"main", "builder"})
  \/ DeleteChannel("ch_2")
  \/ \E c \in ChannelIds, m \in MemberIds : AddMember(c, m)
  \/ \E c \in ChannelIds, m \in MemberIds : RemoveMember(c, m)

SpecMembers == Init /\ [][NextMembers]_vars

\* Heartbeats, with and without message, by an agent that is not the
\* owner, on tasks of every status.
NextHeartbeat ==
  \/ clock < StaleClock /\ Tick
  \/ \E id \in TaskIds : CreateTask(id, "builder", <<>>)
  \/ \E st \in {"blocked", "done", "failed"} : UpdateTask("task_1", st)
  \/ \E id \in TaskIds, m \in BOOLEAN : Heartbeat(id, "main", m)

SpecHeartbeat == Init /\ [][NextHeartbeat]_vars

\* The history of a channel read with every kind of limit and bound.
NextHistory ==
  \/ clock < ShortClock /\ Tick
  \/ \E t \in {NoThread, "th_1"} : PostMessage("ch_1", "investor", t, FALSE)
  \/ \E t \in {NoThread, "th_1"}, b \in {NoBefore, 0, clock},
        l \in {0, 1, 2, DEFAULT_MESSAGE_LIMIT} :
       GetMessages("ch_1", t, b, l)

SpecHistory == Init /\ [][NextHistory]_vars

\* Posts by channel id and by reference while channels come and go.
NextPost ==
  \/ clock < ShortClock /\ Tick
  \/ CreateChannel("eng", "main", {"main", "builder"})
  \/ \E id \in ChannelIds : DeleteChannel(id)
  \/ \E c \in ChannelIds : PostMessage(c, "investor", NoThread, FALSE)
  \/ \E ref \in ChannelRefs : CompanyChannelsPost(ref, "investor", NoThread, FALSE)

SpecPost == Init /\ [][NextPost]_vars

\* Channels deleted over the RPC by id, by name and by an unknown reference.
NextDelete ==
  \/ clock < ShortClock /\ Tick
  \/ \E n \in ChannelNames : CreateChannel(n, "main", {"main", "builder"})
  \/ \E c \in ChannelIds : AddMember(c, "investor")
  \/ \E ref \in ChannelRefs : CompanyChannelsDelete(ref)

SpecDelete == Init /\ [][NextDelete]_vars

\* Dependency edges added and removed between tasks whose prerequisites
\* exist when they are created.
NextDeps ==
  \/ clock < ShortClock /\ Tick
  \/ CreateTask("task_1", "builder", <<>>)
  \/ \E deps \in {<<>>, <<"task_1">>, <<"task_1", "task_1">>} :
       "task_1" \in DOMAIN tasks /\ CreateTask("task_2", "builder", deps)
  \/ \E a \in TaskIds, b \in TaskIds \cup {UnknownTaskId} : AddDependency(a, b)
  \/ \E a \in TaskIds, b \in TaskIds : RemoveDependency(a, b)

SpecDeps == Init /\ [][NextDeps]_vars

\* Log entries of two tasks appended by every writer, several within one
\* millisecond, and read back with small and default limits.
NextLogs ==
  \/ clock < ShortClock /\ Tick
  \/ \E id \in TaskIds : CreateTask(id, "builder", <<>>)
  \/ \E id \in TaskIds : Heartbeat(id, "builder", TRUE)
  \/ \E id \in TaskIds : TasksLog(id, "main")
  \/ \E id \in TaskIds, l \in {1, 2, DEFAULT_LOG_LIMIT} : GetLogs(id, 0, l)

SpecLogs == Init /\ [][NextLogs]_vars

\* Root-level and thread messages posted to a channel with agent members.
NextTranscript ==
  \/ clock < ShortClock /\ Tick
  \/ \E sender \in {"investor", "main"}, t \in {NoThread, "th_1"} :
       PostMessage("ch_1", sender, t, FALSE)
  \/ \E c \in AgentConfigs : SetConfig(c)

SpecTranscript == Init /\ [][NextTranscript]_vars

\* Posts to a channel with several agent members while earlier wake-up
\* calls fail, succeed or stay unanswered.
NextFanout ==
  \/ clock < ShortClock /\ Tick
  \/ AddMember("ch_1", "builder")
  \/ \E g \in BOOLEAN : PostMessage("ch_1", "investor", NoThread, g)
  \/ \E i \in DOMAIN calls, o \in {"ok", "failed"} : GatewaySettle(i, o)

SpecFanout == Init /\ [][NextFanout]_vars

\* Events of every type emitted while either copy of the trigger engine is
\* attached.
NextBroadcast ==
  \/ clock < ShortClock /\ Tick
  \/ ReopenChannelStore
  \/ \E l \in {TriggerListener, TriggerListenerSilent} : SetupChannelTriggers(l)
  \/ CreateChannel("eng", "main", {"main"})
  \/ DeleteChannel("ch_2")
  \/ AddMember("ch_1", "builder")
  \/ RemoveMember("ch_1", "builder")
  \/ PostMessage("ch_1", "investor", NoThread, FALSE)

SpecBroadcast == Init /\ [][NextBroadcast]_vars

\* Scans in which the log, a subscriber or the broadcaster may fail.
NextScanFault ==
  \/ clock < StaleClock /\ Tick
  \/ StartTaskWatchdog(TickMs)
  \/ \E id \in TaskIds : CreateTask(id, "builder", <<>>)
  \/ UpdateTask("task_1", "done")
  \/ \E f \in ScanFaults : CheckWith(f)

SpecScanFault == Init /\ [][NextScanFault]_vars

\* A watchdog that is started, scans and is stopped at any moment, before
\* or after its initial check, while tasks turn stale.
NextStop ==
  \/ clock < StaleClock /\ Tick
  \/ StartTaskWatchdog(TickMs)
  \/ StopTaskWatchdog
  \/ \E id \in TaskIds : CreateTask(id, "builder", <<>>)
  \/ Heartbeat("task_1", "builder", FALSE)
  \/ Check

SpecStop == Init /\ [][NextStop]_vars

\* Posts while subscribers come, one of which answers every message it is
\* handed.
NextOrder ==
  \/ clock < ShortClock /\ Tick
  \/ \E n \in ListenerNames : StoreOn(n, FALSE)
  \/ StoreOnReplying("replier")
  \/ PostMessage("ch_1", "investor", NoThread, FALSE)

SpecOrder == Init /\ [][NextOrder]_vars

\* ==================================================================== claims

\* A step in which a message was stored, and the calls that step issued.
PostedNow == Len(messages') = Len(messages) + 1
NewCalls == SubSeq(calls', Len(calls) + 1, Len(calls'))

\* C1: two gateway `agent` calls for the same (agentId, channelId) pair are
\* never issued less than the cooldown window (5 s) apart, whatever the
\* senders, the timing and the runs of the pruner.
C1_CooldownSpacing ==
  \A i, j \in DOMAIN calls :
    (i < j /\ calls[i].agentId = calls[j].agentId /\ calls[i].channelId = calls[j].channelId)
      => calls[j].at - calls[i].at >= TRIGGER_COOLDOWN_MS

\* A pair woken twice, while the pruner has removed the entry of another
\* pair that was woken before.
C1_Witness ==
  /\ \E i, j \in DOMAIN calls :
       /\ i < j
       /\ calls[i].agentId = calls[j].agentId
       /\ calls[i].channelId = calls[j].channelId
  /\ \E k \in DOMAIN calls :
       TriggerKey(calls[k].agentId, calls[k].channelId) \notin DOMAIN recentTriggers

\* C2: on a channel.message event calls are issued only to members of the
\* message's channel that are known agent ids of the current config and are
\* not the sender; each of them whose cooldown gate is open gets exactly one
\* call, with session key agent:<agentId>:webchat:channel:<channelId>, and
\* nobody else gets a call.
C2_Recipients ==
  [][PostedNow =>
       LET msg == messages'[Len(messages')]
           eligible == {m \in MemberIds :
                          /\ m \in DOMAIN members[msg.channelId]
                          /\ m \in knownAgentIds
                          /\ m # msg.senderId}
           gateOpen(m) ==
             \/ <<m, msg.channelId>> \notin DOMAIN recentTriggers
             \/ clock - recentTriggers[<<m, msg.channelId>>] >= TRIGGER_COOLDOWN_MS
       IN /\ \A i \in DOMAIN NewCalls :
               /\ NewCalls[i].agentId \in eligible
               /\ gateOpen(NewCalls[i].agentId)
               /\ NewCalls[i].channelId = msg.channelId
               /\ NewCalls[i].msg = msg.id
               /\ NewCalls[i].sessionKey =
                    <<"agent", NewCalls[i].agentId, "webchat", "channel", msg.channelId>>
          /\ \A m \in eligible : gateOpen(m) =>
               Cardinality({i \in DOMAIN NewCalls : NewCalls[i].agentId = m}) = 1
          /\ \A m \in MemberIds :
               Cardinality({i \in DOMAIN NewCalls : NewCalls[i].agentId = m}) <= 1
  ]_vars

\* A post that woke builder while main, a member and known agent other than
\* the sender, was held back by its cooldown.
C2_Witness ==
  /\ lastOp.op = "postMessage"
  /\ lastOp.ok
  /\ \E i \in DOMAIN calls : calls[i].msg = lastOp.message.id /\ calls[i].agentId = "builder"
  /\ ~ \E i \in DOMAIN calls : calls[i].msg = lastOp.message.id /\ calls[i].agentId = "main"
  /\ "main" \in DOMAIN members[lastOp.message.channelId]
  /\ "main" \in knownAgentIds
  /\ lastOp.message.senderId = "investor"

\* C3: the cooldown window of a pair runs from the last wake-up that fired:
\* a post wakes an eligible recipient exactly when no wake-up of that
\* recipient in that channel was issued less than 5 s before, however many
\* posts were skipped since.
C3_WindowFromLastFire ==
  [][PostedNow =>
       LET msg == messages'[Len(messages')]
           eligible == {m \in MemberIds :
                          /\ m \in DOMAIN members[msg.channelId]
                          /\ m \in knownAgentIds
                          /\ m # msg.senderId}
           woken(m) == \E i \in DOMAIN NewCalls : NewCalls[i].agentId = m
           quiet(m) == \A i \in DOMAIN calls :
                         (calls[i].agentId = m /\ calls[i].channelId = msg.channelId)
                           => clock - calls[i].at >= TRIGGER_COOLDOWN_MS
       IN \A m \in eligible : woken(m) <=> quiet(m)
  ]_vars

\* main woken, a later post by another sender inside the window skipped, and
\* main woken again exactly 5 s after the first wake-up.
C3_Witness ==
  \E i, j \in DOMAIN calls : \E k \in DOMAIN messages :
    /\ calls[i].agentId = calls[j].agentId
    /\ calls[i].channelId = calls[j].channelId
    /\ calls[j].at - calls[i].at = TRIGGER_COOLDOWN_MS
    /\ calls[i].msg < k /\ k < calls[j].msg
    /\ messages[k].channelId = calls[i].channelId
    /\ messages[k].senderId # messages[calls[i].msg].senderId
    /\ messages[k].senderId # calls[i].agentId
    /\ ~ \E c \in DOMAIN calls : calls[c].msg = k /\ calls[c].agentId = calls[i].agentId

\* C4: whatever the gateway does with the wake-up calls of a post (fails at
\* once, fails or times out later, never answers), postMessage and
\* company.channels.post report success with the message stored, and no
\* stored message is removed afterwards.
C4_PostSurvivesGateway ==
  [][/\ PostedNow =>
          /\ lastOp'.ok
          /\ lastOp'.message = messages'[Len(messages')]
     /\ Len(messages') >= Len(messages)
     /\ SubSeq(messages', 1, Len(messages)) = messages
  ]_vars

\* company.channels.post answered ok for a message one of whose wake-up calls
\* failed while another one is still unanswered.
C4_Witness ==
  /\ lastOp.op = "company.channels.post"
  /\ lastOp.ok
  /\ \E i \in DOMAIN calls : calls[i].msg = lastOp.message.id /\ calls[i].state = "failed"
  /\ \E i \in DOMAIN calls : calls[i].state = "pending"
  /\ \E i \in DOMAIN messages : messages[i] = lastOp.message

\* C5: of two messages of one channel and thread scope, the one committed
\* first comes first in every getMessages result that holds both, also when
\* both carry the same timestamp.
C5_CommitOrder ==
  lastOp.op = "getMessages" =>
    \A i, j \in DOMAIN lastOp.result :
      i < j => lastOp.result[i].id < lastOp.result[j].id

\* C6: a getMessages call on the channel and thread scope of the message
\* posted last, with no `before` and limit >= 1, made before any further post,
\* has that message as its last element.
C6_ReadYourPost ==
  (/\ lastOp.op = "getMessages"
   /\ lastOp.before = 0
   /\ lastOp.limit >= 1
   /\ Len(messages) > 0
   /\ messages[Len(messages)].channelId = lastOp.channelId
   /\ messages[Len(messages)].threadId = StoredThread(lastOp.threadInput))
    => /\ Len(lastOp.result) > 0
       /\ lastOp.result[Len(lastOp.result)] = messages[Len(messages)]

\* C7: for every task, the status is done or failed if and only if
\* completed_at is set, after any createTask, updateTask and heartbeat.
C7_CompletedIffTerminal ==
  \A t \in DOMAIN tasks :
    (tasks[t].status \in {"done", "failed"}) <=> (tasks[t].completedAt # 0)

\* C8: a scan that finds a task stale leaves exactly one task.stale event,
\* one error log entry and one broadcast of the watchdog for the task's
\* current stale interval, however many scans the interval has seen.
C8_OneAlertPerStaleInterval ==
  lastOp.op = "check" =>
    \A t \in lastOp.stale :
      interval[t] = [events |-> 1, errorLogs |-> 1, broadcasts |-> 1]

\* C9: a task the watchdog alerted, which then got a heartbeat and which a
\* scan finds stale again, has got a second task.stale by the end of that
\* scan.
C9_ReAlertAfterHeartbeat ==
  lastOp.op = "check" =>
    \A t \in lastOp.stale : afterAlert[t] # "heartbeat"

\* C10: createTask either commits the task row, every dependency edge and
\* the `created` log entry and emits task.created, or it fails and leaves no
\* row of the task and emits nothing.
C10_CreateTaskAtomic ==
  lastOp.op = "createTask" =>
    IF lastOp.ok
    THEN /\ lastOp.id \in DOMAIN tasks
         /\ \A i \in DOMAIN lastOp.deps : <<lastOp.id, lastOp.deps[i]>> \in taskDeps
         /\ \E i \in DOMAIN taskLogs :
              taskLogs[i].taskId = lastOp.id /\ taskLogs[i].type = "created"
         /\ \E i \in DOMAIN lastOp.events : lastOp.events[i] = "task.created"
    ELSE /\ lastOp.id \notin DOMAIN tasks
         /\ ~ \E e \in taskDeps : e[1] = lastOp.id
         /\ lastOp.events = <<>>

\* C11: after createChannel the creator is a member of the new channel with
\* role admin, and every other member has role member, whatever members
\* list was passed.
C11_CreatorIsAdmin ==
  (lastOp.op \in {"createChannel", "company.channels.create"} /\ lastOp.id # NoChannel
     /\ channels[lastOp.id] = lastOp.name) =>
    /\ lastOp.createdBy \in getMembers(lastOp.id)
    /\ \A m \in getMembers(lastOp.id) :
         members[lastOp.id][m] = IF m = lastOp.createdBy THEN "admin" ELSE "member"

\* C12: an event of the channel store is delivered to every subscriber of
\* the store, also when one of them throws while handling it.
C12_DeliveryToOtherSubscribers ==
  [][(lastOp' # lastOp /\ "delivered" \in DOMAIN lastOp' /\ lastOp'.delivered # <<>>) =>
       \A i \in DOMAIN listeners : listeners[i].name \in Range(lastOp'.delivered)]_vars

\* C13: when an event has reached a subscriber, what it reports is in the
\* store: the message of channel.message, the channel and the members of
\* channel.created, the task and its created log of task.created, and the
\* task of task.heartbeat with the reported heartbeat time.
C13_EventAfterCommit ==
  /\ (lastOp.op = "postMessage" /\ lastOp.ok /\ lastOp.delivered # <<>>) =>
       lastOp.message \in Range(messages)
  /\ (lastOp.op = "createChannel" /\ lastOp.delivered # <<>>) =>
       /\ channels[lastOp.id] = lastOp.name
       /\ getMembers(lastOp.id) # {}
  /\ (lastOp.op = "createTask" /\ "task.created" \in Range(lastOp.events)) =>
       /\ lastOp.id \in DOMAIN tasks
       /\ \E i \in DOMAIN taskLogs :
            taskLogs[i].taskId = lastOp.id /\ taskLogs[i].type = "created"
  /\ (lastOp.op = "heartbeat" /\ "task.heartbeat" \in Range(lastOp.events)) =>
       /\ lastOp.id \in DOMAIN tasks
       /\ tasks[lastOp.id].lastHeartbeatAt = lastOp.at

\* C18: company.channels.create with a name that exists fails with code
\* ALREADY_EXISTS and changes nothing: channels, members and messages stay
\* as they were and no channel.created is emitted.
C18_DuplicateNameRejected ==
  [][(lastOp' # lastOp /\ lastOp'.op = "company.channels.create" /\ NameTaken(lastOp'.name)) =>
       /\ ~lastOp'.ok
       /\ lastOp'.error = "ALREADY_EXISTS"
       /\ lastOp'.delivered = <<>>
       /\ UNCHANGED <<channels, members, messages>>]_vars

\* C19: listChannels returns rows of pairwise distinct names and pairwise
\* distinct ids, and no step gives an existing channel another id or an
\* existing id another channel.
C19_DistinctNamesStableIds ==
  [][/\ lastOp'.op = "listChannels" =>
          \A i, j \in DOMAIN lastOp'.result :
            i # j => /\ lastOp'.result[i].name # lastOp'.result[j].name
                     /\ lastOp'.result[i].id # lastOp'.result[j].id
     /\ \A c1, c2 \in ChannelIds :
          (channels[c1] # NoChannel /\ channels'[c2] = channels[c1]) => c1 = c2]_vars

C19_Witness ==
  /\ lastOp.op = "listChannels"
  /\ Len(lastOp.result) = 2
  /\ channels["ch_1"] # "investor-relations"

CountOf(events, type) == Cardinality({i \in DOMAIN events : events[i] = type})

\* C14: the log of a task records its lifecycle in order: every heartbeat
\* adds one heartbeat entry at the end of what getLogs returns, and every
\* transition of the status to done or failed adds one completed or failed
\* entry at the end.
C14_LogRecordsLifecycle ==
  [][(lastOp' # lastOp /\ lastOp'.op \in {"heartbeat", "updateTask", "task_manage.complete"}
        /\ lastOp'.ok /\ lastOp'.id \in DOMAIN tasks) =>
       LET id == lastOp'.id
           before == LogTypes(getLogs(taskLogs, id, 0, DEFAULT_LOG_LIMIT))
           after == LogTypes(getLogs(taskLogs', id, 0, DEFAULT_LOG_LIMIT))
       IN IF lastOp'.op = "heartbeat" THEN after = Append(before, "heartbeat")
          ELSE IF tasks'[id].status = "done" /\ tasks[id].status # "done"
          THEN after = Append(before, "completed")
          ELSE IF tasks'[id].status = "failed" /\ tasks[id].status # "failed"
          THEN after = Append(before, "failed")
          ELSE TRUE]_vars

\* C15: createTask emits one task.created, a heartbeat one task.heartbeat, a
\* successful updateTask one task.updated, and task.completed (task.failed)
\* is emitted exactly by an update that moves the status into done (failed)
\* from another status.
C15_ExactEvents ==
  [][(lastOp' # lastOp /\ lastOp'.op \in {"createTask", "heartbeat", "updateTask"} /\ lastOp'.ok) =>
       LET id == lastOp'.id
           ev == lastOp'.events
       IN /\ lastOp'.op = "createTask" => CountOf(ev, "task.created") = 1
          /\ lastOp'.op = "heartbeat" => CountOf(ev, "task.heartbeat") = 1
          /\ lastOp'.op = "updateTask" =>
               /\ CountOf(ev, "task.updated") = 1
               /\ CountOf(ev, "task.completed") =
                    IF tasks'[id].status = "done" /\ tasks[id].status # "done" THEN 1 ELSE 0
               /\ CountOf(ev, "task.failed") =
                    IF tasks'[id].status = "failed" /\ tasks[id].status # "failed" THEN 1 ELSE 0]_vars

\* C16: while the clock does not run backwards, no updateTask or heartbeat
\* lowers a task's updated_at, and updated_at is never below created_at.
C16_UpdatedAtMonotone ==
  [][/\ \A t \in DOMAIN tasks \cap DOMAIN tasks' : tasks'[t].updatedAt >= tasks[t].updatedAt
     /\ \A t \in DOMAIN tasks' : tasks'[t].updatedAt >= tasks'[t].createdAt]_vars

C16_Witness ==
  \E t \in DOMAIN tasks :
    /\ tasks[t].createdAt < tasks[t].lastHeartbeatAt
    /\ tasks[t].lastHeartbeatAt < tasks[t].updatedAt
    /\ lastOp.op = "updateTask"

\* C17: getStaleTasks(threshold) returns exactly the tasks that are active
\* or blocked, whose last heartbeat is missing or more than threshold ms
\* old, and that were created more than threshold ms ago.
C17_StaleTasksExact ==
  lastOp.op = "getStaleTasks" =>
    lastOp.result =
      {t \in DOMAIN tasks :
         /\ tasks[t].status \in {"active", "blocked"}
         /\ (tasks[t].lastHeartbeatAt = 0
               \/ lastOp.at - tasks[t].lastHeartbeatAt > lastOp.thresholdMs)
         /\ lastOp.at - tasks[t].createdAt > lastOp.thresholdMs}

C17_Witness ==
  /\ lastOp.op = "getStaleTasks"
  /\ lastOp.result # {}
  /\ \E t \in DOMAIN tasks \ lastOp.result :
       /\ tasks[t].status = "active"
       /\ lastOp.at - tasks[t].createdAt <= lastOp.thresholdMs
  /\ \E t \in lastOp.result : tasks[t].status = "blocked"

\* C20: a tasks.* RPC handler given a taskId that names no task answers
\* ok:false with code INVALID_REQUEST, changes no table and emits no event.
C20_UnknownTaskRejected ==
  [][(lastOp' # lastOp /\ lastOp'.op \in TaskRpcs /\ lastOp'.id \notin DOMAIN tasks) =>
       /\ ~lastOp'.ok
       /\ lastOp'.code = "INVALID_REQUEST"
       /\ lastOp'.events = <<>>
       /\ UNCHANGED <<tasks, taskDeps, taskLogs>>]_vars

\* C21: a post whose channel reference names no existing channel (by id for
\* postMessage, by id or name for company.channels.post) fails -- the store
\* with "Channel not found", the RPC with INVALID_REQUEST -- and stores no
\* message, emits no channel.message event and issues no agent call.
C21_PostToUnknownChannel ==
  [][(lastOp' # lastOp /\ lastOp'.op \in {"postMessage", "company.channels.post"}
        /\ \A c \in ChannelIds :
              \/ channels[c] = NoChannel
              \/ c # lastOp'.ref /\ (lastOp'.op = "postMessage" \/ channels[c] # lastOp'.ref)) =>
       /\ ~lastOp'.ok
       /\ lastOp'.error = IF lastOp'.op = "postMessage" THEN "Channel not found"
                          ELSE "INVALID_REQUEST"
       /\ lastOp'.delivered = <<>>
       /\ UNCHANGED <<messages, calls, recentTriggers>>]_vars

C21_Witness ==
  /\ lastOp.op = "company.channels.post"
  /\ ~lastOp.ok
  /\ lastOp.ref = "eng"
  /\ Len(messages) > 0
  /\ Len(calls) > 0

\* C22: after deleteChannel(id) returned true the channel has no member row
\* and no message row, no channel row carries its id or its name, getMessages
\* on it returns the empty list for every thread, and one channel.deleted
\* event was emitted; deleteChannel on an id without channel returns false,
\* changes no table and emits nothing.
C22_DeleteCascades ==
  [][(lastOp' # lastOp /\ lastOp'.op = "deleteChannel") =>
       LET id == lastOp'.id
           name == channels[id]
       IN IF name = NoChannel
          THEN /\ lastOp'.ok /\ ~lastOp'.deleted
               /\ lastOp'.events = <<>>
               /\ UNCHANGED <<channels, members, messages>>
          ELSE (lastOp'.ok /\ lastOp'.deleted) =>
               /\ DOMAIN members'[id] = {}
               /\ \A i \in DOMAIN messages' : messages'[i].channelId # id
               /\ \A c \in ChannelIds : channels'[c] # name
               /\ channels'[id] = NoChannel
               /\ \A t \in ThreadInputs :
                    getMessages(messages', id, t, 0, DEFAULT_MESSAGE_LIMIT) = {<<>>}
               /\ lastOp'.events = <<"channel.deleted">>
               /\ \A c \in ChannelIds \ {id} :
                    channels'[c] = channels[c] /\ members'[c] = members[c]]_vars

C22_Witness ==
  /\ lastOp.op = "deleteChannel"
  /\ lastOp.ok /\ lastOp.deleted
  /\ lastOp.id = "ch_1"
  /\ calls # <<>>
  /\ messages = <<>>
  /\ channels["ch_2"] # NoChannel

\* C23: the parent_task_id of every task is null or the id of an existing
\* task; createTask with a parentTaskId that names no task creates no task.
C23_ParentExists ==
  \A t \in DOMAIN tasks :
    tasks[t].parentTaskId = NULL \/ tasks[t].parentTaskId \in DOMAIN tasks

\* C24: while a channel created under `name` exists, resolveChannel(name)
\* and getChannel(name) return that channel (its id), also when `name` is
\* the id of another channel.
C24_ResolveByName ==
  lastOp.op \in {"resolveChannel", "getChannel"} =>
    \A c \in ChannelIds : channels[c] = lastOp.ref => lastOp.result = c

\* C25: on an existing channel addMember returns true and emits
\* channel.member.joined exactly when the member had no edge, and leaves the
\* member with one edge; removeMember returns true and emits
\* channel.member.left exactly when the member had an edge, and leaves it
\* with none; a call that returns false changes no member row and emits
\* nothing, and no call touches another edge.
C25_MembershipIdempotent ==
  [][(lastOp' # lastOp /\ lastOp'.op \in {"addMember", "removeMember"}
        /\ channels[lastOp'.channelId] # NoChannel) =>
       LET ch == lastOp'.channelId
           m == lastOp'.memberId
           had == m \in DOMAIN members[ch]
           changed == IF lastOp'.op = "addMember" THEN lastOp'.added ELSE lastOp'.removed
       IN /\ lastOp'.ok
          /\ changed = (IF lastOp'.op = "addMember" THEN ~had ELSE had)
          /\ lastOp'.events = (IF ~changed THEN <<>>
                               ELSE IF lastOp'.op = "addMember"
                               THEN <<"channel.member.joined">>
                               ELSE <<"channel.member.left">>)
          /\ (m \in DOMAIN members'[ch]) = (lastOp'.op = "addMember")
          /\ ~changed => members' = members
          /\ \A c \in ChannelIds : \A x \in MemberIds \ {m} :
               /\ (x \in DOMAIN members'[c]) = (x \in DOMAIN members[c])
               /\ x \in DOMAIN members[c] => members'[c][x] = members[c][x]]_vars

C25_Witness ==
  /\ lastOp.op = "addMember"
  /\ lastOp.ok /\ ~lastOp.added
  /\ lastOp.channelId = "ch_2"
  /\ lastOp.memberId = "investor"
  /\ "main" \notin DOMAIN members["ch_1"]

\* C26: a heartbeat on an existing task sets its last_heartbeat_at and its
\* updated_at to the time of the call and leaves every other column of the
\* task, every other task and the dependencies as they were; the log grows
\* by one heartbeat entry of that task when a message is given and not at
\* all otherwise.
C26_HeartbeatFrame ==
  [][(lastOp' # lastOp /\ lastOp'.op = "heartbeat" /\ lastOp'.id \in DOMAIN tasks) =>
       LET id == lastOp'.id
           Rest(row) == [row EXCEPT !.lastHeartbeatAt = 0, !.updatedAt = 0]
       IN /\ lastOp'.ok
          /\ DOMAIN tasks' = DOMAIN tasks
          /\ tasks'[id].lastHeartbeatAt = lastOp'.at
          /\ tasks'[id].updatedAt = lastOp'.at
          /\ lastOp'.at = clock
          /\ Rest(tasks'[id]) = Rest(tasks[id])
          /\ \A t \in DOMAIN tasks \ {id} : tasks'[t] = tasks[t]
          /\ taskDeps' = taskDeps
          /\ taskLogs' = IF lastOp'.message
                         THEN Append(taskLogs, [taskId |-> id, agentId |-> lastOp'.agentId,
                                                type |-> "heartbeat", timestamp |-> clock])
                         ELSE taskLogs]_vars

C26_Witness ==
  /\ lastOp.op = "heartbeat"
  /\ lastOp.id = "task_1"
  /\ {"task_1", "task_2"} \subseteq DOMAIN tasks
  /\ tasks["task_1"].status = "done"
  /\ tasks["task_1"].agentId = "builder"
  /\ tasks["task_1"].lastHeartbeatAt = lastOp.at
  /\ tasks["task_1"].completedAt < lastOp.at
  /\ tasks["task_1"].createdAt < tasks["task_1"].completedAt

\* C27: updateTask(t, {status: done}) on a task that is already done leaves
\* the status done and leaves completed_at at the time of the first
\* transition to done.
C27_FirstTerminalWins ==
  [][(lastOp' # lastOp /\ lastOp'.op = "updateTask" /\ lastOp'.ok
        /\ lastOp'.status = "done" /\ tasks[lastOp'.id].status = "done") =>
       /\ tasks'[lastOp'.id].status = "done"
       /\ tasks'[lastOp'.id].completedAt = tasks[lastOp'.id].completedAt]_vars

\* C28: every message getMessages(channel, {threadId: x}) returns belongs to
\* that channel and has thread_id x; without threadId every message returned
\* belongs to that channel and has a null thread_id.
C28_ThreadScope ==
  lastOp.op = "getMessages" =>
    \A i \in DOMAIN lastOp.result :
      /\ lastOp.result[i].channelId = lastOp.channelId
      /\ lastOp.result[i].threadId =
           (IF lastOp.threadInput = NoThread THEN NULL ELSE lastOp.threadInput)

\* C29: getMessages with limit n (50 when omitted) and a given `before`, 0
\* included, returns at most n messages, each with a timestamp below
\* `before`, in ascending timestamp order, and no message of the scope that
\* is older than `before` and newer than a returned one is left out while
\* fewer than n are returned or an older one is returned; limit 0 gives the
\* empty list.
C29_LimitAndBefore ==
  lastOp.op = "getMessages" =>
    LET r == lastOp.result
        thread == IF lastOp.threadInput = NoThread THEN NULL ELSE lastOp.threadInput
        scope == {i \in DOMAIN messages :
                    /\ messages[i].channelId = lastOp.channelId
                    /\ messages[i].threadId = thread
                    /\ lastOp.before # NoBefore => messages[i].timestamp < lastOp.before}
    IN /\ Len(r) = Min(lastOp.limit, Cardinality(scope))
       /\ \A i \in DOMAIN r : \E j \in scope : messages[j] = r[i]
       /\ \A i, j \in DOMAIN r : i < j => r[i].timestamp <= r[j].timestamp /\ r[i] # r[j]
       /\ \A j \in scope : (\A i \in DOMAIN r : r[i] # messages[j]) =>
            \A i \in DOMAIN r : messages[j].timestamp <= r[i].timestamp

\* C30: opening the store leaves exactly one channel named
\* investor-relations.  When the channel was there, the open changes no
\* channel, no member and no message; when it was not, the open creates it
\* with the member set {investor, main} and changes nothing else.
C30_OpenIdempotent ==
  [][lastOp'.op = "reopen" /\ (lastOp' # lastOp \/ listeners' # listeners) =>
       LET had == {c \in ChannelIds : channels[c] = "investor-relations"}
           has == {c \in ChannelIds : channels'[c] = "investor-relations"}
       IN /\ Cardinality(has) = 1
          /\ messages' = messages
          /\ IF had # {}
             THEN /\ channels' = channels /\ members' = members
                  /\ lastOp'.created = NoChannel
             ELSE /\ has = {lastOp'.created}
                  /\ DOMAIN members'[lastOp'.created] = {"investor", "main"}
                  /\ \A c \in ChannelIds \ has :
                       channels'[c] = channels[c] /\ members'[c] = members[c]]_vars

C30_Witness ==
  /\ lastOp.op = "reopen"
  /\ lastOp.created = NoChannel
  /\ listeners = <<>>
  /\ channels["ch_2"] = "investor-relations"
  /\ channels["ch_1"] = "eng"
  /\ "investor" \in DOMAIN members["ch_2"]

\* C39: company.channels.delete, given the id or the name of an existing
\* channel, deletes that channel and reports deleted = true.
C39_DeleteByReference ==
  [][\A ref \in ChannelRefs :
       (CompanyChannelsDelete(ref) /\ resolveChannel(ref) # {})
         => /\ lastOp'.deleted
            /\ \E c \in resolveChannel(ref) : channels'[c] = NoChannel]_vars

\* C37: for every task the dependencies list returned by getTask holds
\* exactly the prerequisite ids getDependencies returns, after any sequence
\* of createTask, addDependency and removeDependency.
C37_DependenciesAgree ==
  \A t \in DOMAIN tasks : TaskDependencies(t) = getDependencies(t)

\* The entries of task `id` in the order they were appended.
AppendedFor(logs, id) == SelectSeq(logs, LAMBDA e : e.taskId = id)

\* The last n elements of a sequence.
LastN(s, n) == SubSeq(s, Len(s) - Min(n, Len(s)) + 1, Len(s))

C31_TranscriptIsChannelTail ==
  [][(PostedNow /\ NewCalls # <<>>) =>
       LET ch == messages'[Len(messages')].channelId
           rows == {i \in DOMAIN messages' : messages'[i].channelId = ch}
       IN \A tr \in Transcripts(messages', ch) :
            \E q \in OrderDescLimit(messages', rows, TRANSCRIPT_LIMIT) :
              tr = Transcript(Reverse([i \in DOMAIN q |-> messages'[q[i]]]))
  ]_vars

\* C33: the gateway calls of one channel.message event are all issued in
\* the step of the post, one for every recipient whose gate is open,
\* whether the calls of this or of an earlier event fail, hang or succeed;
\* postMessage returns with success, and no call is issued at any later
\* moment nor changed by the end of another call.
C33_CallsIssuedTogether ==
  [][/\ PostedNow =>
          LET msg == messages'[Len(messages')]
              open == {m \in agentMembers(msg.channelId, msg.senderId, knownAgentIds) :
                         shouldTrigger(recentTriggers, m, msg.channelId, clock).ok}
          IN /\ {NewCalls[i].agentId : i \in DOMAIN NewCalls} = open
             /\ Len(NewCalls) = Cardinality(open)
             /\ \A i \in DOMAIN NewCalls : NewCalls[i].at = clock /\ NewCalls[i].msg = msg.id
             /\ lastOp'.ok
     /\ ~PostedNow => Len(calls') = Len(calls)
     /\ \A i \in DOMAIN calls, o \in {"ok", "failed"} :
          GatewaySettle(i, o) =>
            \A j \in DOMAIN calls : j # i => calls'[j] = calls[j]
  ]_vars

\* A post has just issued calls to two agents, both failed at once, while a
\* call of an earlier event is still unanswered.
C33_Witness ==
  /\ lastOp.op = "postMessage"
  /\ lastOp.ok
  /\ \E i, j \in DOMAIN calls :
       /\ calls[i].msg = lastOp.message.id
       /\ calls[j].msg = lastOp.message.id
       /\ calls[i].agentId # calls[j].agentId
       /\ calls[i].state = "failed"
       /\ calls[j].state = "failed"
  /\ \E k \in DOMAIN calls : calls[k].msg # lastOp.message.id /\ calls[k].state = "pending"

\* The event type an operation of the channel store emits.
EmittedBy(op) ==
  CASE op = "createChannel" -> "channel.created"
    [] op = "deleteChannel" -> "channel.deleted"
    [] op = "addMember" -> "channel.member.joined"
    [] op = "removeMember" -> "channel.member.left"
    [] op = "postMessage" -> "channel.message"

\* C36: every channel event emitted while the trigger engine is attached is
\* handed to the WebSocket broadcaster exactly once, under the name of its
\* type, whether or not an agent is woken.
C36_EveryEventBroadcast ==
  ("broadcast" \in DOMAIN lastOp /\ TriggerListener.name \in Range(lastOp.delivered)) =>
    lastOp.broadcast = <<BroadcastName(EmittedBy(lastOp.op))>>

\* C38: after every scan, also one in which appending the error log, a
\* subscriber or the broadcast failed, every stale task in the alerted set
\* has had its task.stale emitted during its current stale interval.
C38_AlertedMeansEmitted ==
  lastOp.op = "check" =>
    \A t \in alerted \cap lastOp.stale : interval[t].events >= 1

\* The number of error entries the watchdog has appended.
WatchdogLogs(logs) ==
  Cardinality({i \in DOMAIN logs : logs[i].agentId = "system" /\ logs[i].type = "error"})

\* C35: once the watchdog's stop() has returned no scan runs any more,
\* neither from the interval nor from the initial check that was pending:
\* no timer is armed, no task.stale is emitted or broadcast, no error entry
\* is appended and the alerted set stays as it is.
C35_NoScanAfterStop ==
  [][timers.stopped =>
       /\ ArmedTimers(timers') = {}
       /\ ~ \E f \in ScanFaults : CheckWith(f)
       /\ alerted' = alerted
       /\ WatchdogLogs(taskLogs') = WatchdogLogs(taskLogs)
       /\ \A t \in TaskIds :
            /\ interval'[t].events <= interval[t].events
            /\ interval'[t].broadcasts <= interval[t].broadcasts
  ]_vars

\* stop() returned while the initial check was still pending, and since then
\* a task has turned stale that no scan has alerted.
C35_Witness ==
  /\ timers.stopped
  /\ lastOp.op = "stop"
  /\ lastOp.initialTimeoutPending
  /\ \E t \in getStaleTasks(tasks, staleThresholdMs, clock) :
       t \notin alerted /\ interval[t].events = 0

\* The cooldown map of an engine whose pruner never runs: for every pair
\* that was woken, the time of its last wake-up call.
UnprunedTriggers ==
  LET keyOf(i) == TriggerKey(calls[i].agentId, calls[i].channelId)
      keys == {keyOf(i) : i \in DOMAIN calls}
  IN [k \in keys |->
        LET ats == {calls[i].at : i \in {j \in DOMAIN calls : keyOf(j) = k}}
        IN CHOOSE a \in ats : \A b \in ats : b <= a]

\* C40: the pruner never changes a gating decision: every post wakes exactly
\* the recipients an engine without pruner would wake, and no entry that is
\* still inside its cooldown window is ever removed from the map.
C40_PrunerIsInvisible ==
  [][/\ PostedNow =>
          LET msg == messages'[Len(messages')]
          IN {NewCalls[i].agentId : i \in DOMAIN NewCalls} =
               {m \in agentMembers(msg.channelId, msg.senderId, knownAgentIds) :
                  shouldTrigger(UnprunedTriggers, m, msg.channelId, clock).ok}
     /\ \A k \in DOMAIN recentTriggers \ DOMAIN recentTriggers' :
          clock - recentTriggers[k] >= TRIGGER_COOLDOWN_MS
  ]_vars

\* The pruner has removed the entry of a pair that was woken, and a post has
\* just been held back by the entry of another pair that is still inside its
\* window.
C40_Witness ==
  /\ \E k \in DOMAIN UnprunedTriggers : k \notin DOMAIN recentTriggers
  /\ lastOp.op = "postMessage"
  /\ lastOp.ok
  /\ \E m \in agentMembers(lastOp.message.channelId, lastOp.message.senderId, knownAgentIds) :
       /\ ~ \E i \in DOMAIN calls : calls[i].msg = lastOp.message.id /\ calls[i].agentId = m
       /\ TriggerKey(m, lastOp.message.channelId) \in DOMAIN recentTriggers
       /\ clock - recentTriggers[TriggerKey(m, lastOp.message.channelId)] < TRIGGER_COOLDOWN_MS

\* The position of a subscriber in the subscription order.
SubscribedAt(name) == CHOOSE i \in DOMAIN listeners : listeners[i].name = name

\* C32: every subscriber receives the channel.message events of a channel
\* in the order the messages were committed, and each event reaches the
\* subscribers in subscription order, whatever the subscribers do.
C32_DeliveryInCommitOrder ==
  (lastOp.op = "postMessage" /\ lastOp.ok) =>
    \A i, j \in DOMAIN lastOp.deliveries : i < j =>
      /\ lastOp.deliveries[i][1] = lastOp.deliveries[j][1] =>
           lastOp.deliveries[i][2] < lastOp.deliveries[j][2]
      /\ lastOp.deliveries[i][2] = lastOp.deliveries[j][2] =>
           SubscribedAt(lastOp.deliveries[i][1]) < SubscribedAt(lastOp.deliveries[j][1])

====
